---- MODULE Spec2Model ----
(***************************************************************************)
(* Model of the data-access layer of initiative-tracker: the migration     *)
(* runner, sessions, slugs, owned assets, relation caches and the remote   *)
(* fetch guard.  Each part has its own specification over its own          *)
(* variables; the other variables stay parked at their initial value.      *)
(***************************************************************************)
EXTENDS Integers, Sequences, FiniteSets, TLC

VARIABLES
    \* ---- migration runner (migration.ts) ----
    migrationsDir,      \* ids of the .js files in migrations/
    stateFile,          \* the migration-state file: [exists, content]
    mpc,                \* position of the running migrate() call
    migrationState,     \* local variable migrationState of migrate()
    mIndex,             \* loop position in allMigrationsSorted (1-based)
    mShouldRun,         \* local variable shouldRun of the current iteration
    mlog,               \* history: every shouldRun / run / write, in order
    mCalls,             \* number of migrate() calls started so far
    mRead,              \* history: marker read by each call
    \* ---- sessions (session.ts, env.ts) ----
    now,                \* Date.now(), in units of TimeUnitMs
    sessions,           \* rows of table sessions
    sNextId,            \* how many session ids randomBytes has produced
    sHandles,           \* the Session object create() returned for each id
    sInvalidated,       \* history: ids on which invalidate() has run
    sWasExpired,        \* history: ids whose row expiry has been in the past
    sLast,              \* the last call and what it returned
    \* ---- slugs of initiatives and organisations ----
    initiatives,        \* table initiatives: columns id, slug, shortName
    organisations,      \* table organisations: columns id, slug, name
    aggNextId,          \* how many aggregate ids randomBytes has produced
    slugHandles,        \* the in-memory object of each aggregate created
    slLast,             \* the last call made
    \* ---- assets owned by initiatives and organisations ----
    assetDirectory,     \* names of the files in the asset directory
    assetNames,         \* how many asset names generateName has produced
    ownRows,            \* rows of initiatives / organisations: id, kind, pdf, image
    ownNextId,          \* how many aggregate ids have been produced here
    ownObjs,            \* the in-memory object per id: held, _pdf, _image
    ownPending,         \* the call suspended at an await, if any
    ownLast,            \* the last updatePdf, updateImage or rm, and its removals
    \* ---- relations: signatures and backings ----
    signatures,         \* table signatures: rows per personId, for the initiative
    initiativeOrganisations, \* table initiativeOrganisations: rows per organisationId
    iObj,               \* the Initiative object: resolved flag and both caches
    pObj,               \* a Person object: resolved flag and cache
    oObj,               \* the Organisation objects: resolved flag and cache
    iFor,               \* history: the owner the Initiative object was resolved for
    iSole,              \* history: no other object wrote its rows since its resolve
    iOwn,               \* history: it added only people of iFor since its resolve
    pSole,              \* history: no other object wrote the person's rows since
    rLast,              \* the last call: op, arg, how it ended, repeated or not
    \* ---- Asset.createFromUrl ----
    uPc,                \* position of the createFromUrl call
    uUrl,               \* its argument
    uResult,            \* how it ended: the error thrown, or "asset"
    uRequested,         \* hosts and addresses a request of this call went to
    uWritten,           \* asset files this call has written
    \* ---- Asset._safeFetch and redirects ----
    fVersion,           \* which _safeFetch runs: redirect 'error', or re-validation
    fPc,                \* position of the _safeFetch call
    fCurrent,           \* hostname of the URL the next request goes to
    fHops,              \* redirects followed so far
    fSent,              \* hostnames a request of this call was sent to
    fValidated,         \* hostnames _validateUrl has passed in this call
    fAccepted,          \* hostname whose body the call returned, or "none"
    fResult,            \* how the call ended
    \* ---- Asset.createFromBuffer ----
    bPc,                \* position of the createFromBuffer call
    bClass,             \* the class it was called on
    bBuffer,            \* the buffer passed in
    bCall,              \* number of the call
    bFiles,             \* files in the asset directory, with what wrote them
    bResult,            \* how the call ended
    \* ---- Login ----
    logins,             \* rows of table logins, in rowid order
    lObj,               \* the Login object of each row
    lPending,           \* calls waiting for bcrypt.hash
    lNow,               \* Date.now()
    lLast,              \* the call that ran last, and how it ended
    \* ---- Person ----
    perRows,            \* rows of table people, by id
    perObj,             \* the Person object of each row
    perSigned,          \* personId of the initiative's rows in signatures
    perNow,             \* Date.now()
    perLast,            \* the call that ran last, and what it returned
    \* ---- removal of initiatives, organisations and people ----
    gRows,              \* the row of each aggregate id, if stored: its updatable column
    gObjs,              \* the object a caller holds per id: value, resolved flag
    gSignatures,        \* table signatures: pairs <<personId, initiativeId>>
    gInitiativeOrganisations, \* table initiativeOrganisations: pairs <<initiativeId, organisationId>>
    gRemoved,           \* history: ids on which rm() has run
    gLast,              \* the last call made on an object
    \* ---- Asset.fromName and the file system ----
    nFiles,             \* paths of the regular files that exist
    nHeld,              \* the Asset object last returned by fromName: its name
    nLast,              \* the last call: name given, path stat'ed, result
    \* ---- createFromUrl: the timer of _safeFetch ----
    tPc,                \* position of the createFromUrl call
    tHost,              \* hostname of the URL given
    tTimer,             \* the setTimeout of the call: none, armed, fired
    tElapsed,           \* seconds since the timer was armed
    tRequests,          \* requests the call has issued
    tCalls,             \* createFromUrl calls made
    tResult,            \* what the call ended with
    \* ---- rows that belong to a login ----
    cLogins,            \* table logins: the userIds stored
    cSessions,          \* table sessions: rows sessionId, userId
    cPeople,            \* table people: rows id, owner
    cSignatures,        \* table signatures: personIds, for the one initiative
    cNextSession,       \* how many session ids have been produced here
    cLast,              \* the last statement and the rows it removed
    \* ---- makeSorter with keys a and b ----
    srArray,            \* the input array
    srPc,               \* input given, or both sorters applied
    srSorted,           \* what the sorter with reverse: false returned
    srSortedReverse,    \* what the sorter with reverse: true returned
    \* ---- POST /account: change of password ----
    acHash,             \* passwordHash of the login's row
    acSessions,         \* sessionIds of the login's rows in table sessions
    acNextSession,      \* how many session ids have been produced here
    acIssuedBefore,     \* history: sessions stored when the password last changed
    acLast,             \* the last POST /account and what it found
    \* ---- two handles of one initiative row ----
    hFiles,             \* names of the files in the asset directory
    hNames,             \* how many asset names have been produced
    hRow,               \* the row: exists, pdf, image
    hObj,               \* per handle: the _pdf and _image fields
    hPending            \* per handle: the call suspended at an awaited rm()

migVars == <<migrationsDir, stateFile, mpc, migrationState, mIndex,
             mShouldRun, mlog, mCalls, mRead>>

sesVars == <<now, sessions, sNextId, sHandles, sInvalidated, sWasExpired,
             sLast>>

slugVars == <<initiatives, organisations, aggNextId, slugHandles, slLast>>

ownVars == <<assetDirectory, assetNames, ownRows, ownNextId, ownObjs, ownPending,
            ownLast>>

relVars == <<signatures, initiativeOrganisations, iObj, pObj, oObj, iFor, iSole, iOwn, pSole, rLast>>

urlVars == <<uPc, uUrl, uResult, uRequested, uWritten>>

redVars == <<fVersion, fPc, fCurrent, fHops, fSent, fValidated, fAccepted, fResult>>

bufVars == <<bPc, bClass, bBuffer, bCall, bFiles, bResult>>

logVars == <<logins, lObj, lPending, lNow, lLast>>

perVars == <<perRows, perObj, perSigned, perNow, perLast>>

goneVars == <<gRows, gObjs, gSignatures, gInitiativeOrganisations, gRemoved, gLast>>

namVars == <<nFiles, nHeld, nLast>>

fetVars == <<tPc, tHost, tTimer, tElapsed, tRequests, tCalls, tResult>>

casVars == <<cLogins, cSessions, cPeople, cSignatures, cNextSession, cLast>>

srtVars == <<srArray, srPc, srSorted, srSortedReverse>>

accVars == <<acHash, acSessions, acNextSession, acIssuedBefore, acLast>>

hndVars == <<hFiles, hNames, hRow, hObj, hPending>>

vars == <<migVars, sesVars, slugVars, ownVars, relVars, urlVars, redVars, bufVars, logVars, perVars, goneVars, namVars, fetVars, casVars, srtVars, accVars, hndVars>>

otherThanMig == <<sesVars, slugVars, ownVars, relVars, urlVars, redVars, bufVars, logVars, perVars, goneVars, namVars, fetVars, casVars, srtVars, accVars, hndVars>>
otherThanSes == <<migVars, slugVars, ownVars, relVars, urlVars, redVars, bufVars, logVars, perVars, goneVars, namVars, fetVars, casVars, srtVars, accVars, hndVars>>
otherThanSlug == <<migVars, sesVars, ownVars, relVars, urlVars, redVars, bufVars, logVars, perVars, goneVars, namVars, fetVars, casVars, srtVars, accVars, hndVars>>
otherThanOwn == <<migVars, sesVars, slugVars, relVars, urlVars, redVars, bufVars, logVars, perVars, goneVars, namVars, fetVars, casVars, srtVars, accVars, hndVars>>
otherThanRel == <<migVars, sesVars, slugVars, ownVars, urlVars, redVars, bufVars, logVars, perVars, goneVars, namVars, fetVars, casVars, srtVars, accVars, hndVars>>
otherThanUrl == <<migVars, sesVars, slugVars, ownVars, relVars, redVars, bufVars, logVars, perVars, goneVars, namVars, fetVars, casVars, srtVars, accVars, hndVars>>
otherThanRed == <<migVars, sesVars, slugVars, ownVars, relVars, urlVars, bufVars, logVars, perVars, goneVars, namVars, fetVars, casVars, srtVars, accVars, hndVars>>
otherThanBuf == <<migVars, sesVars, slugVars, ownVars, relVars, urlVars, redVars, logVars, perVars, goneVars, namVars, fetVars, casVars, srtVars, accVars, hndVars>>
otherThanLog == <<migVars, sesVars, slugVars, ownVars, relVars, urlVars, redVars, bufVars, perVars, goneVars, namVars, fetVars, casVars, srtVars, accVars, hndVars>>
otherThanPer == <<migVars, sesVars, slugVars, ownVars, relVars, urlVars, redVars, bufVars, logVars, goneVars, namVars, fetVars, casVars, srtVars, accVars, hndVars>>
otherThanGone == <<migVars, sesVars, slugVars, ownVars, relVars, urlVars, redVars, bufVars, logVars, perVars, namVars, fetVars, casVars, srtVars, accVars, hndVars>>
otherThanNam == <<migVars, sesVars, slugVars, ownVars, relVars, urlVars, redVars, bufVars, logVars, perVars, goneVars, fetVars, casVars, srtVars, accVars, hndVars>>
otherThanFet == <<migVars, sesVars, slugVars, ownVars, relVars, urlVars, redVars, bufVars, logVars, perVars, goneVars, namVars, casVars, srtVars, accVars, hndVars>>
otherThanCas == <<migVars, sesVars, slugVars, ownVars, relVars, urlVars, redVars, bufVars, logVars, perVars, goneVars, namVars, fetVars, srtVars, accVars, hndVars>>
otherThanSrt == <<migVars, sesVars, slugVars, ownVars, relVars, urlVars, redVars, bufVars, logVars, perVars, goneVars, namVars, fetVars, casVars, accVars, hndVars>>
otherThanAcc == <<migVars, sesVars, slugVars, ownVars, relVars, urlVars, redVars, bufVars, logVars, perVars, goneVars, namVars, fetVars, casVars, srtVars, hndVars>>
otherThanHnd == <<migVars, sesVars, slugVars, ownVars, relVars, urlVars, redVars, bufVars, logVars, perVars, goneVars, namVars, fetVars, casVars, srtVars, accVars>>

-----------------------------------------------------------------------------
(* The value each part's variables keep while another part is examined *)

MigParked ==
    /\ migrationsDir = {}
    /\ stateFile = [exists |-> FALSE, content |-> <<>>]
    /\ mpc = "idle"
    /\ migrationState = 0 - 1
    /\ mIndex = 1
    /\ mShouldRun = FALSE
    /\ mlog = <<>>
    /\ mCalls = 0
    /\ mRead = <<>>

SesParked ==
    /\ now = 0
    /\ sessions = {}
    /\ sNextId = 0
    /\ sHandles = <<>>
    /\ sInvalidated = {}
    /\ sWasExpired = {}
    /\ sLast = [op |-> "other"]

SlugParked ==
    /\ initiatives = {}
    /\ organisations = {}
    /\ aggNextId = 0
    /\ slugHandles = <<>>
    /\ slLast = [op |-> "none"]

OwnParked ==
    /\ assetDirectory = {}
    /\ assetNames = 0
    /\ ownRows = {}
    /\ ownNextId = 0
    /\ ownObjs = <<>>
    /\ ownPending = [active |-> FALSE]
    /\ ownLast = [op |-> "none"]

RelParked ==
    /\ signatures = <<>>
    /\ initiativeOrganisations = <<>>
    /\ iObj = [resolved |-> FALSE]
    /\ pObj = [resolved |-> FALSE]
    /\ oObj = <<>>
    /\ iFor = "none"
    /\ iSole = FALSE
    /\ iOwn = FALSE
    /\ pSole = FALSE
    /\ rLast = [op |-> "none"]

UrlParked ==
    /\ uPc = "idle"
    /\ uUrl = [parses |-> FALSE]
    /\ uResult = "none"
    /\ uRequested = {}
    /\ uWritten = 0

RedParked ==
    /\ fVersion = "none"
    /\ fPc = "idle"
    /\ fCurrent = "none"
    /\ fHops = 0
    /\ fSent = {}
    /\ fValidated = {}
    /\ fAccepted = "none"
    /\ fResult = "none"

BufParked ==
    /\ bPc = "idle"
    /\ bClass = "none"
    /\ bBuffer = [byteLength |-> 0, content |-> "text"]
    /\ bCall = 0
    /\ bFiles = {}
    /\ bResult = "none"

LogParked ==
    /\ logins = <<>>
    /\ lObj = <<>>
    /\ lPending = {}
    /\ lNow = 0
    /\ lLast = [op |-> "none", id |-> 0, username |-> "", password |-> "",
                result |-> "none", wrote |-> FALSE, before |-> 0,
                same |-> FALSE]

PerParked ==
    /\ perRows = <<>>
    /\ perObj = <<>>
    /\ perSigned = {}
    /\ perNow = 0
    /\ perLast = [op |-> "none", owner |-> "none", result |-> <<>>,
                  threw |-> "none", id |-> 0, before |-> 0,
                  target |-> 0, name |-> ""]

GoneParked ==
    /\ gRows = <<>>
    /\ gObjs = <<>>
    /\ gSignatures = {}
    /\ gInitiativeOrganisations = {}
    /\ gRemoved = {}
    /\ gLast = [op |-> "none", id |-> "", threw |-> "none"]

NamParked ==
    /\ nFiles = {}
    /\ nHeld = <<>>
    /\ nLast = [op |-> "none", name |-> <<>>, path |-> <<>>, dir |-> FALSE,
                result |-> <<>>]

FetParked ==
    /\ tPc = "idle"
    /\ tHost = "none"
    /\ tTimer = "none"
    /\ tElapsed = 0
    /\ tRequests = 0
    /\ tCalls = 0
    /\ tResult = "none"

CasParked ==
    /\ cLogins = {}
    /\ cSessions = {}
    /\ cPeople = {}
    /\ cSignatures = {}
    /\ cNextSession = 0
    /\ cLast = [op |-> "none", login |-> "none", sessions |-> {},
                people |-> {}, signatures |-> {}]

SrtParked ==
    /\ srArray = <<>>
    /\ srPc = "none"
    /\ srSorted = <<>>
    /\ srSortedReverse = <<>>

AccParked ==
    /\ acHash = [bcrypt |-> "none"]
    /\ acSessions = {}
    /\ acNextSession = 0
    /\ acIssuedBefore = {}
    /\ acLast = [op |-> "none", cookie |-> 0, verified |-> FALSE,
                 before |-> [bcrypt |-> "none"], status |-> 0]

HndParked ==
    /\ hFiles = {}
    /\ hNames = 0
    /\ hRow = [exists |-> FALSE, pdf |-> 0, image |-> 0]
    /\ hObj = <<>>
    /\ hPending = <<>>

-----------------------------------------------------------------------------
(* Generic helpers *)

Range(s) == {s[k] : k \in 1..Len(s)}

Last(s) == s[Len(s)]

RECURSIVE SetToSortedSeq(_)
\* Array.prototype.toSorted((a, b) => a - b) on a set of distinct numbers
SetToSortedSeq(S) ==
    IF S = {} THEN <<>>
    ELSE LET m == CHOOSE x \in S : \A y \in S : x <= y
         IN <<m>> \o SetToSortedSeq(S \ {m})

-----------------------------------------------------------------------------
(* Migration runner *)

MaxMigrationId == 3
MaxCalls == 2

\* String(id): decimal digits of a non-negative number, most significant first
RECURSIVE NumberToString(_)
NumberToString(n) ==
    IF n < 10 THEN <<n>> ELSE NumberToString(n \div 10) \o <<n % 10>>

\* Number.parseInt(text, 10) on a digit string; NaN is modelled as -2
NaN == 0 - 2
RECURSIVE ParseDigits(_, _)
ParseDigits(text, acc) ==
    IF text = <<>> THEN acc
    ELSE ParseDigits(Tail(text), acc * 10 + Head(text))
ParseInt(text) == IF text = <<>> THEN NaN ELSE ParseDigits(text, 0)

\* listMigrationsSorted: the ids of the directory's .js files, ascending
listMigrationsSorted(dir) == SetToSortedSeq(dir)

allMigrationsSorted == listMigrationsSorted(migrationsDir)

\* readMigrationState: -1 when the file cannot be read, else the parsed id
readMigrationState(file) ==
    IF ~file.exists THEN 0 - 1 ELSE ParseInt(file.content)

\* writeMigrationState: writeFile(path, String(id))
writeMigrationState(id) == [exists |-> TRUE, content |-> NumberToString(id)]

\* migrate, line 321: if (migration.id <= migrationState) continue
AlreadyApplied_Strict(id, state) == id < state
AlreadyApplied(id, state) == id <= state

\* migrate, lines 330-331: what is persisted after an iteration
MarkerAfter_OnlyIfRan(id, ran, state) == IF ran THEN id ELSE state
MarkerAfter(id, ran, state) == id

MigStart ==
    /\ migrationsDir \in SUBSET (1..MaxMigrationId)
    /\ stateFile \in {[exists |-> FALSE, content |-> <<>>]}
                     \cup {writeMigrationState(m) : m \in 1..MaxMigrationId}
    /\ mpc = "idle"
    /\ migrationState = 0 - 1
    /\ mIndex = 1
    /\ mShouldRun = FALSE
    /\ mlog = <<>>
    /\ mCalls = 0
    /\ mRead = <<>>

\* migrate() is entered (process start): empty list returns at once,
\* otherwise the marker is read
MigrateStart ==
    /\ mpc = "idle"
    /\ mCalls < MaxCalls
    /\ mCalls' = mCalls + 1
    /\ mIndex' = 1
    /\ mShouldRun' = FALSE
    /\ IF Len(allMigrationsSorted) = 0
       THEN /\ mpc' = "done"
            /\ mRead' = Append(mRead, readMigrationState(stateFile))
            /\ UNCHANGED migrationState
       ELSE /\ migrationState' = readMigrationState(stateFile)
            /\ mRead' = Append(mRead, readMigrationState(stateFile))
            /\ mpc' = "loop"
    /\ UNCHANGED <<migrationsDir, stateFile, mlog>>
    /\ UNCHANGED otherThanMig

\* loop head: id <= migrationState -> continue
MigrateSkip ==
    /\ mpc = "loop"
    /\ mIndex <= Len(allMigrationsSorted)
    /\ AlreadyApplied(allMigrationsSorted[mIndex], migrationState)
    /\ mIndex' = mIndex + 1
    /\ UNCHANGED <<migrationsDir, stateFile, mpc, migrationState, mShouldRun,
                   mlog, mCalls, mRead>>
    /\ UNCHANGED otherThanMig

\* await migration.shouldRun(api): the outcome is the migration's own
MigrateShouldRun ==
    /\ mpc = "loop"
    /\ mIndex <= Len(allMigrationsSorted)
    /\ ~AlreadyApplied(allMigrationsSorted[mIndex], migrationState)
    /\ \E b \in BOOLEAN :
          /\ mShouldRun' = b
          /\ mlog' = Append(mlog, [op |-> "shouldRun",
                                   id |-> allMigrationsSorted[mIndex],
                                   call |-> mCalls, result |-> b])
          /\ mpc' = IF b THEN "run" ELSE "write"
    /\ UNCHANGED <<migrationsDir, stateFile, migrationState, mIndex, mCalls,
                   mRead>>
    /\ UNCHANGED otherThanMig

\* await migration.run(api)
MigrateRun ==
    /\ mpc = "run"
    /\ mlog' = Append(mlog, [op |-> "run", id |-> allMigrationsSorted[mIndex],
                             call |-> mCalls, result |-> TRUE])
    /\ mpc' = "write"
    /\ UNCHANGED <<migrationsDir, stateFile, migrationState, mIndex,
                   mShouldRun, mCalls, mRead>>
    /\ UNCHANGED otherThanMig

\* migrationState = migration.id; await writeMigrationState(...)
MigrateWrite ==
    /\ mpc = "write"
    /\ LET id == allMigrationsSorted[mIndex]
           new == MarkerAfter(id, mShouldRun, migrationState)
       IN /\ migrationState' = new
          /\ stateFile' = writeMigrationState(new)
          /\ mlog' = Append(mlog, [op |-> "write", id |-> new,
                                   call |-> mCalls, result |-> mShouldRun])
    /\ mIndex' = mIndex + 1
    /\ mpc' = "loop"
    /\ UNCHANGED <<migrationsDir, mShouldRun, mCalls, mRead>>
    /\ UNCHANGED otherThanMig

\* the for loop is exhausted: migrate() resolves
MigrateReturn ==
    /\ mpc = "loop"
    /\ mIndex > Len(allMigrationsSorted)
    /\ mpc' = "done"
    /\ UNCHANGED <<migrationsDir, stateFile, migrationState, mIndex,
                   mShouldRun, mlog, mCalls, mRead>>
    /\ UNCHANGED otherThanMig

\* the process is started again against the same data directory
Restart ==
    /\ mpc = "done"
    /\ mCalls < MaxCalls
    /\ mpc' = "idle"
    /\ UNCHANGED <<migrationsDir, stateFile, migrationState, mIndex,
                   mShouldRun, mlog, mCalls, mRead>>
    /\ UNCHANGED otherThanMig

MigInit == MigStart /\ SesParked /\ SlugParked /\ OwnParked /\ RelParked /\ UrlParked /\ RedParked /\ BufParked /\ LogParked /\ PerParked /\ GoneParked /\ NamParked /\ FetParked /\ CasParked /\ SrtParked /\ AccParked /\ HndParked

MigNext ==
    \/ MigrateStart
    \/ MigrateSkip
    \/ MigrateShouldRun
    \/ MigrateRun
    \/ MigrateWrite
    \/ MigrateReturn
    \/ Restart

SpecMigrate == MigInit /\ [][MigNext]_vars

-----------------------------------------------------------------------------
(* Claims about the migration runner *)

\* the events of call c, in order
RECURSIVE SelectCall(_, _)
SelectCall(log, c) ==
    IF log = <<>> THEN <<>>
    ELSE (IF Head(log).call = c THEN <<Head(log)>> ELSE <<>>)
         \o SelectCall(Tail(log), c)

\* the block one considered migration contributes to the log
Block(id, c, res) ==
    <<[op |-> "shouldRun", id |-> id, call |-> c, result |-> res]>>
    \o (IF res THEN <<[op |-> "run", id |-> id, call |-> c, result |-> TRUE]>>
        ELSE <<>>)
    \o <<[op |-> "write", id |-> id, call |-> c, result |-> res]>>

\* the outcome shouldRun(id) had in call c (FALSE when it was never asked)
ResultOf(log, c, id) ==
    \E k \in 1..Len(log) :
        /\ log[k].op = "shouldRun" /\ log[k].id = id /\ log[k].call = c
        /\ log[k].result

RECURSIVE ExpectedLog(_, _, _)
ExpectedLog(ids, c, log) ==
    IF ids = <<>> THEN <<>>
    ELSE Block(Head(ids), c, ResultOf(log, c, Head(ids)))
         \o ExpectedLog(Tail(ids), c, log)

Considered(m) == SelectSeq(allMigrationsSorted, LAMBDA id : id > m)

\* C1: a completed migrate call that read marker m has considered exactly the
\* migrations with id > m, ascending; run follows shouldRun only when it
\* returned true; the marker is written after each considered migration, ran
\* or not, before the next; the file ends at the last considered id.
C1_MigrateOrder ==
    (mpc = "done" /\ mCalls >= 1) =>
        LET m == mRead[mCalls]
            ids == Considered(m)
        IN /\ SelectCall(mlog, mCalls) = ExpectedLog(ids, mCalls, mlog)
           /\ ids # <<>> => readMigrationState(stateFile) = Last(ids)
           /\ (mlog # <<>> /\ Last(mlog).op = "write")
                 => readMigrationState(stateFile) = Last(mlog).id

\* C1 witness: ids [1,2,3], marker 1, migration 3's shouldRun false, done
C1_Witness ==
    /\ mpc = "done" /\ mCalls = 1
    /\ allMigrationsSorted = <<1, 2, 3>>
    /\ mRead = <<1>>
    /\ Len(mlog) = 5
    /\ mlog[1].op = "shouldRun" /\ mlog[1].id = 2 /\ mlog[1].result
    /\ mlog[2].op = "run" /\ mlog[2].id = 2
    /\ mlog[3].op = "write" /\ mlog[3].id = 2
    /\ mlog[4].op = "shouldRun" /\ mlog[4].id = 3 /\ ~mlog[4].result
    /\ mlog[5].op = "write" /\ mlog[5].id = 3
    /\ readMigrationState(stateFile) = 3

\* every shouldRun and run in the log concerns an id above the marker its
\* call read, and no id is asked or run twice over all calls
NoRepeat(log) ==
    /\ \A k \in 1..Len(log) :
          log[k].op \in {"shouldRun", "run"} => log[k].id > mRead[log[k].call]
    /\ \A j, k \in 1..Len(log) :
          (j # k /\ log[j].op = log[k].op /\ log[j].op \in {"shouldRun", "run"})
             => log[j].id # log[k].id

\* C2: over successive completed migrate calls the persisted marker never
\* decreases, and no migration at or below the persisted marker has shouldRun
\* or run invoked again, so each run executes at most once.
C2_MarkerMonotone ==
    [][ /\ readMigrationState(stateFile') >= readMigrationState(stateFile)
        /\ NoRepeat(mlog')
        /\ (mpc' = "loop" /\ mpc = "idle")
              => migrationState' = readMigrationState(stateFile) ]_vars

\* C2 witness: a second call finds everything applied and invokes nothing
C2_Witness ==
    /\ mpc = "done" /\ mCalls = 2
    /\ allMigrationsSorted = <<1, 2, 3>>
    /\ SelectCall(mlog, 1) # <<>>
    /\ SelectCall(mlog, 2) = <<>>
    /\ \E k \in 1..Len(mlog) : mlog[k].op = "run"
    /\ readMigrationState(stateFile) = 3

-----------------------------------------------------------------------------
(* Sessions *)

MaxTime == 8
MaxSessions == 2

Logins == {"l1", "l2"}

\* one unit of model time, in milliseconds (a day)
TimeUnitMs == 24 * 60 * 60 * 1000

\* Session._SESSION_DURATION_MS, 7 days, in time units
SESSION_DURATION_Half == (7 * 24 * 60 * 60 * 1000) \div (2 * TimeUnitMs)
SESSION_DURATION == (7 * 24 * 60 * 60 * 1000) \div TimeUnitMs

\* identifyUser: delta < 1.5 * 24 * 60 * 60 * 1000, delta in time units
SlideDue(delta) == 2 * delta * TimeUnitMs < 3 * 24 * 60 * 60 * 1000

\* identifyUser: expires.setDate(expires.getDate() + 2), in time units
SlideExtension == (2 * 24 * 60 * 60 * 1000) \div TimeUnitMs

\* Login.fromUserId: the login row, if any
LoginExists(userId) == userId \in Logins

\* Session.isExpired: this.expiryDate.getTime() < Date.now()
isExpired_Never(expiryDate, t) == FALSE
isExpired(expiryDate, t) == expiryDate < t

\* Session.shouldRenew: not expired, and timeToExpire > 0 and
\* timeToExpire < _SESSION_DURATION_MS * 0.5
shouldRenew_NotExpired(expiryDate, t) == ~isExpired(expiryDate, t)
shouldRenew(expiryDate, t) ==
    IF isExpired(expiryDate, t)
    THEN FALSE
    ELSE LET timeToExpire == expiryDate - t
         IN /\ timeToExpire > 0
            /\ 2 * timeToExpire * TimeUnitMs < 7 * 24 * 60 * 60 * 1000

SessionRow(id) == {r \in sessions : r.sessionId = id}

\* Session._fromRow: undefined without a row or without its login
fromRow_None(rows) == {}
fromRow(rows) ==
    {r \in rows : LoginExists(r.userId)}

\* Session.fromSessionId: the row, unless missing, ownerless or expired
fromSessionId(id) ==
    {r \in fromRow(SessionRow(id)) : ~isExpired(r.expires, now)}

\* rows whose expiry lies in the past at time t
ExpiredAt(rows, t) == {r.sessionId : r \in {x \in rows : x.expires < t}}

SesStart ==
    /\ now = 0
    /\ sessions = {}
    /\ sNextId = 0
    /\ sHandles = <<>>
    /\ sInvalidated = {}
    /\ sWasExpired = {}
    /\ sLast = [op |-> "other"]

\* time passes
Tick ==
    /\ now < MaxTime
    /\ now' = now + 1
    /\ sWasExpired' = sWasExpired \cup ExpiredAt(sessions, now + 1)
    /\ sLast' = [op |-> "other"]
    /\ UNCHANGED <<sessions, sNextId, sHandles, sInvalidated>>
    /\ UNCHANGED otherThanSes

\* the INSERT of Session.create and the object it returns
CreateSession(user) ==
    LET id == sNextId + 1
        row == [sessionId |-> id, userId |-> user,
                expires |-> now + SESSION_DURATION, createdAt |-> now]
    IN /\ sessions' = sessions \cup {row}
       /\ sNextId' = id
       /\ sHandles' = Append(sHandles, [user |-> user,
                                        expiryDate |-> row.expires,
                                        createdAt |-> row.createdAt])

\* Session.create(user)
SessionCreate(user) ==
    /\ sNextId < MaxSessions
    /\ CreateSession(user)
    /\ sLast' = [op |-> "other"]
    /\ UNCHANGED <<now, sInvalidated, sWasExpired>>
    /\ UNCHANGED otherThanSes

\* Session.fromSessionId(id), for any id a client may present
SessionFromSessionId(id) ==
    /\ sLast' = [op |-> "fromSessionId", id |-> id,
                 found |-> fromSessionId(id) # {}]
    /\ UNCHANGED <<now, sessions, sNextId, sHandles, sInvalidated, sWasExpired>>
    /\ UNCHANGED otherThanSes

\* session.invalidate() on the object held for id
SessionInvalidate(id) ==
    /\ id \in DOMAIN sHandles
    /\ sessions' = sessions \ SessionRow(id)
    /\ sInvalidated' = sInvalidated \cup {id}
    /\ sLast' = [op |-> "other"]
    /\ UNCHANGED <<now, sNextId, sHandles, sWasExpired>>
    /\ UNCHANGED otherThanSes

\* Session.removeExpired(): every row whose session is expired is invalidated
SessionRemoveExpired ==
    /\ LET gone == {r \in fromRow(sessions) : isExpired(r.expires, now)}
       IN /\ sessions' = sessions \ gone
          /\ sInvalidated' = sInvalidated \cup {r.sessionId : r \in gone}
    /\ sLast' = [op |-> "removeExpired"]
    /\ UNCHANGED <<now, sNextId, sHandles, sWasExpired>>
    /\ UNCHANGED otherThanSes

\* session.shouldRenew() on the object held for id
SessionShouldRenew(id) ==
    /\ id \in DOMAIN sHandles
    /\ sLast' = [op |-> "shouldRenew", id |-> id,
                 found |-> shouldRenew(sHandles[id].expiryDate, now)]
    /\ UNCHANGED <<now, sessions, sNextId, sHandles, sInvalidated, sWasExpired>>
    /\ UNCHANGED otherThanSes

\* session.renew() on the object held for id
SessionRenew(id) ==
    /\ id \in DOMAIN sHandles
    /\ IF isExpired(sHandles[id].expiryDate, now)
       THEN /\ sLast' = [op |-> "renew", id |-> id, found |-> FALSE]
            /\ UNCHANGED <<sessions, sNextId, sHandles>>
       ELSE /\ sNextId < MaxSessions
            /\ CreateSession(sHandles[id].user)
            /\ sLast' = [op |-> "renew", id |-> id, found |-> TRUE]
    /\ UNCHANGED <<now, sInvalidated, sWasExpired>>
    /\ UNCHANGED otherThanSes

\* identifyUser: the request carries cookie session=id
IdentifyUser(id) ==
    LET found == {r \in SessionRow(id) : LoginExists(r.userId) /\ r.expires > now}
    IN /\ sLast' = [op |-> "identifyUser", id |-> id, found |-> found # {}]
       /\ sessions' =
            (sessions \ {r \in found : SlideDue(r.expires - now)})
            \cup {[r EXCEPT !.expires = now + SlideExtension] :
                     r \in {x \in found : SlideDue(x.expires - now)}}
       /\ UNCHANGED <<now, sNextId, sHandles, sInvalidated, sWasExpired>>
       /\ UNCHANGED otherThanSes

SesInit == SesStart /\ MigParked /\ SlugParked /\ OwnParked /\ RelParked /\ UrlParked /\ RedParked /\ BufParked /\ LogParked /\ PerParked /\ GoneParked /\ NamParked /\ FetParked /\ CasParked /\ SrtParked /\ AccParked /\ HndParked

SesNext ==
    \/ Tick
    \/ \E u \in Logins : SessionCreate(u)
    \/ \E id \in 1..MaxSessions : SessionFromSessionId(id)
    \/ \E id \in 1..MaxSessions : SessionInvalidate(id)
    \/ SessionRemoveExpired
    \/ \E id \in 1..MaxSessions : SessionRenew(id)
    \/ \E id \in 1..MaxSessions : IdentifyUser(id)

SpecSession == SesInit /\ [][SesNext]_vars

\* the life of session objects: created, aged, asked, renewed
ShouldRenewNext ==
    \/ Tick
    \/ \E u \in Logins : SessionCreate(u)
    \/ \E id \in 1..MaxSessions : SessionShouldRenew(id)
    \/ \E id \in 1..MaxSessions : SessionRenew(id)

SpecShouldRenew == SesInit /\ [][ShouldRenewNext]_vars

-----------------------------------------------------------------------------
(* Claims about sessions *)

\* C3: fromSessionId(id) returns a session only if a row with that id exists,
\* its login exists and its expiry is not in the past; once invalidate() has
\* run for the id, or its expiry has passed, fromSessionId returns undefined
\* and identifyUser authenticates no request with it.
C3_SessionValidity ==
    (sLast.op \in {"fromSessionId", "identifyUser"} /\ sLast.found) =>
        /\ \E r \in sessions :
              /\ r.sessionId = sLast.id
              /\ LoginExists(r.userId)
              /\ r.expires >= now
        /\ sLast.id \notin sInvalidated
        /\ sLast.id \notin sWasExpired

\* C3 witness: a lookup of an invalidated id, and one of an expired id whose
\* row is still stored, both answered undefined
C3_Witness ==
    /\ sLast.op = "fromSessionId" /\ ~sLast.found
    /\ sLast.id \in sWasExpired
    /\ SessionRow(sLast.id) # {}
    /\ sInvalidated # {}

-----------------------------------------------------------------------------
(* Slugs of initiatives and organisations *)

MaxAggregates == 3

\* display names the callers pass
Names == {"Initiative", "INITIATIVE", "Initiative 1"}

\* makeSlug(name, {appendRandomHex: false}) of @lusc/util/slug: lower-cased,
\* separators turned into "-"
makeSlug(name) ==
    CASE name = "Initiative" -> "initiative"
      [] name = "INITIATIVE" -> "initiative"
      [] name = "Initiative 1" -> "initiative-1"

\* counter === 0 ? baseSlug : `${baseSlug}-${counter}`
SlugOf(baseSlug, counter) ==
    IF counter = 0 THEN baseSlug ELSE baseSlug \o "-" \o ToString(counter)

NoId == 0

\* the for loop of getInitiativeSlug / getOrganisationSlug over table rows
RECURSIVE SlugLoop(_, _, _, _)
SlugLoop(rows, baseSlug, currentId, counter) ==
    LET slug == SlugOf(baseSlug, counter)
        hit == {r \in rows : r.slug = slug}
    IN IF hit = {} \/ (\A r \in hit : r.id = currentId)
       THEN slug
       ELSE SlugLoop(rows, baseSlug, currentId, counter + 1)

\* Initiative.getInitiativeSlug(name, currentId?)
getInitiativeSlug_NoSelf(name, currentId) ==
    SlugLoop(initiatives, makeSlug(name), NoId, 0)
getInitiativeSlug(name, currentId) ==
    SlugLoop(initiatives, makeSlug(name), currentId, 0)

\* Organisation.getOrganisationSlug(name, currentId?)
getOrganisationSlug(name, currentId) ==
    SlugLoop(organisations, makeSlug(name), currentId, 0)

\* slug TEXT NOT NULL UNIQUE: would storing slug for row id be refused
SlugTaken(rows, slug, id) == \E r \in rows : r.slug = slug /\ r.id # id

OtherSlugs(rows, id) == {r.slug : r \in {x \in rows : x.id # id}}

SlugStart ==
    /\ initiatives = {}
    /\ organisations = {}
    /\ aggNextId = 0
    /\ slugHandles = <<>>
    /\ slLast = [op |-> "none"]

\* Initiative.create(shortName, ...)
InitiativeCreate(name) ==
    /\ aggNextId < MaxAggregates
    /\ LET id == aggNextId + 1
           slug == getInitiativeSlug(name, NoId)
           refused == SlugTaken(initiatives, slug, id)
       IN /\ aggNextId' = id
          /\ initiatives' = IF refused THEN initiatives
                            ELSE initiatives \cup
                                 {[id |-> id, slug |-> slug, shortName |-> name]}
          /\ slugHandles' = Append(slugHandles,
                [kind |-> "initiative", made |-> ~refused, name |-> name])
          /\ slLast' = [op |-> "create"]
    /\ UNCHANGED organisations
    /\ UNCHANGED otherThanSlug

\* initiative.updateShortName(newShortName) on the object held for id
InitiativeUpdateShortName(id, name) ==
    /\ id \in DOMAIN slugHandles
    /\ slugHandles[id].kind = "initiative" /\ slugHandles[id].made
    /\ name # slugHandles[id].name
    /\ LET slug == getInitiativeSlug(name, id)
           refused == SlugTaken(initiatives, slug, id)
       IN /\ initiatives' =
                IF refused THEN initiatives
                ELSE {IF r.id = id
                      THEN [r EXCEPT !.slug = slug, !.shortName = name]
                      ELSE r : r \in initiatives}
          /\ slugHandles' =
                IF refused THEN slugHandles
                ELSE [slugHandles EXCEPT ![id].name = name]
          /\ slLast' = [op |-> "rename"]
    /\ UNCHANGED <<organisations, aggNextId>>
    /\ UNCHANGED otherThanSlug

\* initiative.rm(): the DELETE
InitiativeRmRow(id) ==
    /\ id \in DOMAIN slugHandles
    /\ slugHandles[id].kind = "initiative" /\ slugHandles[id].made
    /\ initiatives' = {r \in initiatives : r.id # id}
    /\ slLast' = [op |-> "rm"]
    /\ UNCHANGED <<organisations, aggNextId, slugHandles>>
    /\ UNCHANGED otherThanSlug

\* Organisation.create(name, ...)
OrganisationCreate(name) ==
    /\ aggNextId < MaxAggregates
    /\ LET id == aggNextId + 1
           slug == getOrganisationSlug(name, NoId)
           refused == SlugTaken(organisations, slug, id)
       IN /\ aggNextId' = id
          /\ organisations' = IF refused THEN organisations
                              ELSE organisations \cup
                                   {[id |-> id, slug |-> slug, name |-> name]}
          /\ slugHandles' = Append(slugHandles,
                [kind |-> "organisation", made |-> ~refused, name |-> name])
          /\ slLast' = [op |-> "create"]
    /\ UNCHANGED initiatives
    /\ UNCHANGED otherThanSlug

\* organisation.updateName(newName) on the object held for id
OrganisationUpdateName(id, name) ==
    /\ id \in DOMAIN slugHandles
    /\ slugHandles[id].kind = "organisation" /\ slugHandles[id].made
    /\ name # slugHandles[id].name
    /\ LET slug == getOrganisationSlug(name, id)
           refused == SlugTaken(organisations, slug, id)
       IN /\ organisations' =
                IF refused THEN organisations
                ELSE {IF r.id = id
                      THEN [r EXCEPT !.slug = slug, !.name = name]
                      ELSE r : r \in organisations}
          /\ slugHandles' =
                IF refused THEN slugHandles
                ELSE [slugHandles EXCEPT ![id].name = name]
          /\ slLast' = [op |-> "rename"]
    /\ UNCHANGED <<initiatives, aggNextId>>
    /\ UNCHANGED otherThanSlug

\* organisation.rm(): the DELETE
OrganisationRmRow(id) ==
    /\ id \in DOMAIN slugHandles
    /\ slugHandles[id].kind = "organisation" /\ slugHandles[id].made
    /\ organisations' = {r \in organisations : r.id # id}
    /\ slLast' = [op |-> "rm"]
    /\ UNCHANGED <<initiatives, aggNextId, slugHandles>>
    /\ UNCHANGED otherThanSlug

SlugInit == SlugStart /\ MigParked /\ SesParked /\ OwnParked /\ RelParked /\ UrlParked /\ RedParked /\ BufParked /\ LogParked /\ PerParked /\ GoneParked /\ NamParked /\ FetParked /\ CasParked /\ SrtParked /\ AccParked /\ HndParked

SlugNext ==
    \/ \E n \in Names : InitiativeCreate(n)
    \/ \E id \in 1..MaxAggregates, n \in Names : InitiativeUpdateShortName(id, n)
    \/ \E id \in 1..MaxAggregates : InitiativeRmRow(id)
    \/ \E n \in Names : OrganisationCreate(n)
    \/ \E id \in 1..MaxAggregates, n \in Names : OrganisationUpdateName(id, n)
    \/ \E id \in 1..MaxAggregates : OrganisationRmRow(id)

SpecSlug == SlugInit /\ [][SlugNext]_vars

-----------------------------------------------------------------------------
(* Claims about slugs *)

UniqueSlugs(rows) == \A r, s \in rows : r.slug = s.slug => r.id = s.id

\* the slug the rule of the claim assigns, given the slugs other rows hold
LeastFree(baseSlug, others) ==
    IF baseSlug \notin others THEN baseSlug
    ELSE SlugOf(baseSlug,
                CHOOSE k \in 1..(Cardinality(others) + 1) :
                    /\ SlugOf(baseSlug, k) \notin others
                    /\ \A j \in 1..(k - 1) : SlugOf(baseSlug, j) \in others)

\* what a create or rename that stored a slug for row id must have stored
SlugRule(before, after, id) ==
    \A r \in after : r.id = id =>
        r.slug = LeastFree(makeSlug(IF "shortName" \in DOMAIN r
                                    THEN r.shortName ELSE r.name),
                           OtherSlugs(before, id))

\* every create or rename in this step stored a row, and stored the slug
\* the rule gives for the slugs the other rows held before the step
SlugStep(before, after, kind) ==
    \A id \in 1..(MaxAggregates + 1) :
        /\ (aggNextId' = id /\ aggNextId = id - 1
             /\ slugHandles'[id].kind = kind) =>
                /\ \E r \in after : r.id = id
                /\ SlugRule(before, after, id)
        /\ (id \in DOMAIN slugHandles /\ slugHandles[id].kind = kind
             /\ slugHandles'[id].name # slugHandles[id].name) =>
                SlugRule(before, after, id)

\* C4: no two initiative rows and no two organisation rows share a slug, and
\* every create or rename stores the base slug of the name when no other row
\* holds it, else base-k for the least k >= 1 no other row holds.
C4_SlugUnique ==
    [][/\ UniqueSlugs(initiatives') /\ UniqueSlugs(organisations')
       /\ SlugStep(initiatives, initiatives', "initiative")
       /\ SlugStep(organisations, organisations', "organisation")]_vars

\* C4 witness: two creates gave initiative and initiative-1, and renaming a
\* third initiative onto the same base has just given initiative-2
C4_Witness ==
    /\ slLast.op = "rename"
    /\ {r.slug : r \in initiatives} = {"initiative", "initiative-1", "initiative-2"}
    /\ \E r \in initiatives : r.id = 1 /\ r.slug = "initiative"
    /\ \E r \in initiatives : r.id = 2 /\ r.slug = "initiative-1"
                              /\ r.shortName = "INITIATIVE"
    /\ \E r \in initiatives : r.id = 3 /\ r.slug = "initiative-2"

-----------------------------------------------------------------------------
(* Assets owned by initiatives and organisations *)

MaxAssetFiles == 3
MaxOwners == 2

\* image: null in a row, undefined in an object; organisations have no pdf
NoAsset == 0

AssetArgs == assetDirectory

Idle == [active |-> FALSE]

\* no updatePdf, updateImage or rm is the last call
NoCall == [op |-> "none"]

\* the call op on aggregate id has written its row: old are the files the
\* object owned, pdf and image what it is to own
Began(op, id, old, pdf, image, done) ==
    [op |-> op, id |-> id, old |-> old \ {NoAsset}, pdf |-> pdf,
     image |-> image, failed |-> {}, threw |-> FALSE, done |-> done]

OwnStart ==
    /\ assetDirectory = {}
    /\ assetNames = 0
    /\ ownRows = {}
    /\ ownNextId = 0
    /\ ownObjs = <<>>
    /\ ownPending = Idle
    /\ ownLast = NoCall

\* Asset.createFromBuffer(buffer): _write under a fresh random name
AssetCreateFromBuffer ==
    /\ ~ownPending.active
    /\ assetNames < MaxAssetFiles
    /\ assetNames' = assetNames + 1
    /\ assetDirectory' = assetDirectory \cup {assetNames + 1}
    /\ ownLast' = NoCall
    /\ UNCHANGED <<ownRows, ownNextId, ownObjs, ownPending>>
    /\ UNCHANGED otherThanOwn

\* Initiative.create(..., pdf, image, ...): one INSERT, no file is touched
InitiativeCreateOwning(pdf, image) ==
    /\ ~ownPending.active
    /\ ownNextId < MaxOwners
    /\ ownNextId' = ownNextId + 1
    /\ ownRows' = ownRows \cup {[id |-> ownNextId + 1, kind |-> "initiative",
                                 pdf |-> pdf, image |-> image]}
    /\ ownObjs' = Append(ownObjs, [held |-> TRUE, pdf |-> pdf, image |-> image])
    /\ ownLast' = NoCall
    /\ UNCHANGED <<assetDirectory, assetNames, ownPending>>
    /\ UNCHANGED otherThanOwn

\* Organisation.create(name, image, website)
OrganisationCreateOwning(image) ==
    /\ ~ownPending.active
    /\ ownNextId < MaxOwners
    /\ ownNextId' = ownNextId + 1
    /\ ownRows' = ownRows \cup {[id |-> ownNextId + 1, kind |-> "organisation",
                                 pdf |-> NoAsset, image |-> image]}
    /\ ownObjs' = Append(ownObjs,
                         [held |-> TRUE, pdf |-> NoAsset, image |-> image])
    /\ ownLast' = NoCall
    /\ UNCHANGED <<assetDirectory, assetNames, ownPending>>
    /\ UNCHANGED otherThanOwn

HeldAs(id, kind) ==
    /\ id \in DOMAIN ownObjs
    /\ ownObjs[id].held
    /\ \/ kind = "initiative" /\ ownObjs[id].pdf # NoAsset
       \/ kind = "organisation" /\ ownObjs[id].pdf = NoAsset

\* the call has written the row and now awaits the removal of toRemove;
\* with nothing to await it finishes at once
Suspend(id, toRemove, pdf, image, keep) ==
    IF toRemove = <<>>
    THEN /\ ownPending' = Idle
         /\ ownObjs' = [ownObjs EXCEPT ![id] =
                            [held |-> keep, pdf |-> pdf, image |-> image]]
    ELSE /\ ownPending' = [active |-> TRUE, id |-> id, toRemove |-> toRemove,
                           pdf |-> pdf, image |-> image, keep |-> keep]
         /\ ownObjs' = ownObjs

\* initiative.updatePdf(newPdf) up to `await this.pdf.rm()`
InitiativeUpdatePdf(id, newPdf) ==
    /\ ~ownPending.active
    /\ HeldAs(id, "initiative")
    /\ ownRows' = {IF r.id = id THEN [r EXCEPT !.pdf = newPdf] ELSE r
                   : r \in ownRows}
    /\ Suspend(id, <<ownObjs[id].pdf>>, newPdf, ownObjs[id].image, TRUE)
    /\ ownLast' = Began("updatePdf", id, {ownObjs[id].pdf}, newPdf,
                        ownObjs[id].image, FALSE)
    /\ UNCHANGED <<assetDirectory, assetNames, ownNextId>>
    /\ UNCHANGED otherThanOwn

SameImageIsNoop(old, new) == old = NoAsset /\ new = NoAsset

\* initiative.updateImage(newImage) / organisation.updateImage(newImage) up
\* to `await this.image?.rm()`
UpdateImage(id, newImage) ==
    /\ ~ownPending.active
    /\ id \in DOMAIN ownObjs /\ ownObjs[id].held
    /\ IF SameImageIsNoop(ownObjs[id].image, newImage)
       THEN /\ UNCHANGED <<ownRows, ownObjs, ownPending>>
            /\ ownLast' = NoCall
       ELSE /\ ownRows' = {IF r.id = id THEN [r EXCEPT !.image = newImage]
                           ELSE r : r \in ownRows}
            /\ Suspend(id,
                       IF ownObjs[id].image = NoAsset THEN <<>>
                       ELSE <<ownObjs[id].image>>,
                       ownObjs[id].pdf, newImage, TRUE)
            /\ ownLast' = Began("updateImage", id, {ownObjs[id].image},
                                ownObjs[id].pdf, newImage,
                                ownObjs[id].image = NoAsset)
    /\ UNCHANGED <<assetDirectory, assetNames, ownNextId>>
    /\ UNCHANGED otherThanOwn

\* initiative.rm() / organisation.rm() up to the first await: the DELETE
Rm(id) ==
    /\ ~ownPending.active
    /\ id \in DOMAIN ownObjs /\ ownObjs[id].held
    /\ ownRows' = {r \in ownRows : r.id # id}
    /\ Suspend(id,
               (IF ownObjs[id].image = NoAsset THEN <<>>
                ELSE <<ownObjs[id].image>>)
               \o (IF ownObjs[id].pdf = NoAsset THEN <<>>
                   ELSE <<ownObjs[id].pdf>>),
               ownObjs[id].pdf, ownObjs[id].image, FALSE)
    /\ ownLast' = Began("rm", id, {ownObjs[id].pdf, ownObjs[id].image},
                        ownObjs[id].pdf, ownObjs[id].image,
                        ownObjs[id].pdf = NoAsset /\ ownObjs[id].image = NoAsset)
    /\ UNCHANGED <<assetDirectory, assetNames, ownNextId>>
    /\ UNCHANGED otherThanOwn

\* asset.rm() of a file: what the asset directory holds afterwards
Removed_Nothing(name) == assetDirectory
Removed(name) == assetDirectory \ {name}

\* `try { await ... .rm() } catch {}`: a rejected rm() does not leave the call
CatchesRmFailure_Not == FALSE
CatchesRmFailure == TRUE

\* the awaited asset.rm() is over, with the file gone or (failed) with the
\* directory as it was; the call goes on to the next rm() and, after the
\* last one, assigns its fields and returns. A rejection that nothing
\* catches ends the call before the fields are assigned.
Resume(failed) ==
    IF failed /\ ~CatchesRmFailure
    THEN /\ ownPending' = Idle
         /\ ownObjs' = ownObjs
         /\ ownLast' = [ownLast EXCEPT
                !.failed = @ \cup {Head(ownPending.toRemove)},
                !.threw = TRUE, !.done = TRUE]
    ELSE /\ Suspend(ownPending.id, Tail(ownPending.toRemove),
                    ownPending.pdf, ownPending.image, ownPending.keep)
         /\ ownLast' = [ownLast EXCEPT
                !.failed = IF failed THEN @ \cup {Head(ownPending.toRemove)}
                           ELSE @,
                !.done = Len(ownPending.toRemove) = 1]

\* the awaited asset.rm() runs: the file is removed, or there is no such
\* file and rm() rejects
AwaitRm ==
    /\ ownPending.active
    /\ assetDirectory' = Removed(Head(ownPending.toRemove))
    /\ Resume(Head(ownPending.toRemove) \notin assetDirectory)
    /\ UNCHANGED <<assetNames, ownRows, ownNextId>>
    /\ UNCHANGED otherThanOwn

\* the awaited asset.rm() rejects although the file is there (it is in use,
\* or may not be removed): the file stays
AwaitRmRejects ==
    /\ ownPending.active
    /\ Head(ownPending.toRemove) \in assetDirectory
    /\ Resume(TRUE)
    /\ UNCHANGED <<assetDirectory, assetNames, ownRows, ownNextId>>
    /\ UNCHANGED otherThanOwn

\* the process stops: the suspended call and every object are gone, the
\* database and the asset directory stay as they are
Crash ==
    /\ ownPending.active
    /\ ownPending' = Idle
    /\ ownLast' = NoCall
    /\ ownObjs' = [k \in DOMAIN ownObjs |-> [ownObjs[k] EXCEPT !.held = FALSE]]
    /\ UNCHANGED <<assetDirectory, assetNames, ownRows, ownNextId>>
    /\ UNCHANGED otherThanOwn

\* Asset.fromName(name): an object only for a file that exists
fromName(name) == IF name \in assetDirectory THEN name ELSE NoAsset

\* Initiative.fromId(id) / Organisation.fromId(id): _fromRow
FromId(id) ==
    /\ ~ownPending.active
    /\ \E r \in ownRows :
        /\ r.id = id
        /\ ~ownObjs[id].held
        /\ r.kind = "initiative" => fromName(r.pdf) # NoAsset
        /\ ownObjs' = [ownObjs EXCEPT ![id] =
                          [held |-> TRUE, pdf |-> r.pdf,
                           image |-> IF r.image = NoAsset THEN NoAsset
                                     ELSE fromName(r.image)]]
    /\ ownLast' = NoCall
    /\ UNCHANGED <<assetDirectory, assetNames, ownRows, ownNextId, ownPending>>
    /\ UNCHANGED otherThanOwn

OwnInit == OwnStart /\ MigParked /\ SesParked /\ SlugParked /\ RelParked /\ UrlParked /\ RedParked /\ BufParked /\ LogParked /\ PerParked /\ GoneParked /\ NamParked /\ FetParked /\ CasParked /\ SrtParked /\ AccParked /\ HndParked

OwnNext ==
    \/ AssetCreateFromBuffer
    \/ \E p \in AssetArgs, i \in AssetArgs \cup {NoAsset} :
          InitiativeCreateOwning(p, i)
    \/ \E i \in AssetArgs \cup {NoAsset} : OrganisationCreateOwning(i)
    \/ \E id \in 1..MaxOwners, p \in AssetArgs : InitiativeUpdatePdf(id, p)
    \/ \E id \in 1..MaxOwners, i \in AssetArgs \cup {NoAsset} : UpdateImage(id, i)
    \/ \E id \in 1..MaxOwners : Rm(id)
    \/ AwaitRm
    \/ AwaitRmRejects
    \/ Crash
    \/ \E id \in 1..MaxOwners : FromId(id)

SpecOwn == OwnInit /\ [][OwnNext]_vars

-----------------------------------------------------------------------------
(* Claims about owned assets *)

Dangling(r) ==
    \/ r.pdf # NoAsset /\ r.pdf \notin assetDirectory
    \/ r.image # NoAsset /\ r.image \notin assetDirectory

\* C5: at every point of any sequence of create, updatePdf, updateImage and
\* rm calls, a crash between row write and file removal included, every pdf
\* or image name stored in a row names a file that exists in the asset
\* directory.
C5_NoDanglingReference == \A r \in ownRows : ~Dangling(r)

\* C5, the failing case: one initiative, one asset ever written; the calls
\* have all returned, the row names the asset as its pdf and the object
\* holds it, yet the file has been removed
C5_SamePdfRemoved ==
    /\ ~ownPending.active
    /\ ownNextId = 1 /\ assetNames = 1
    /\ \E r \in ownRows : r.id = 1 /\ r.pdf = 1 /\ r.image = NoAsset
    /\ ownObjs[1].held /\ ownObjs[1].pdf = 1 /\ ownObjs[1].image = NoAsset
    /\ 1 \notin assetDirectory

-----------------------------------------------------------------------------
(* Relations: signatures (person - initiative) and backings (organisation -  *)
(* initiative), seen from one Initiative object, one Person object and the   *)
(* Organisation objects                                                      *)

MaxPeople == 3
MaxOrganisations == 1
\* calls are followed while the cache they would extend is shorter than this
MaxCacheLen == 4

People == 1..MaxPeople
Organisations == 1..MaxOrganisations

\* the initiative whose relations are followed, as the objects carry it
TheInitiative == [id |-> 1, deadline |-> "nullish", shortName |-> "a"]

\* the person whose object keeps a cache here
CachedPerson == 1

\* rows of people: the first two belong to one login, the others to another;
\* names are not in id order and two differ only by case
PersonRow(p) ==
    [id |-> p,
     name |-> CASE p = 1 -> "b" [] p = 2 -> "a" [] OTHER -> "A",
     owner |-> IF p <= 2 THEN "l1" ELSE "l2"]

\* rows of organisations, names not in id order
OrganisationRow(o) ==
    [id |-> o, name |-> IF o = 1 THEN "b" ELSE "a"]

\* the tables initDatabase creates
Tables == {"logins", "sessions", "people", "initiatives", "organisations",
           "signatures", "initiativeOrganisations"}

\* the NOT NULL columns of both join tables
JoinColumns == {"personId", "initiativeId", "organisationId", "createdAt"}

\* a key that is null or undefined
Nullish == "nullish"

\* localeCompare(a, b, undefined, {numeric, caseFirst, sensitivity: 'base'})
\* on the names used here: case is not a difference
BaseRank(name) ==
    CASE name = "a" -> 1 [] name = "A" -> 1 [] name = "b" -> 2 [] OTHER -> 0

\* one key of makeSorter's comparator: nullish last, else localeCompare,
\* negated when reverse; 0 goes on to the next key
CompareKey(x, y, reverse) ==
    IF x # Nullish /\ y = Nullish THEN 0 - 1
    ELSE IF x = Nullish /\ y # Nullish THEN 1
    ELSE IF x = Nullish /\ y = Nullish THEN 0
    ELSE IF BaseRank(x) < BaseRank(y) THEN (IF reverse THEN 1 ELSE 0 - 1)
    ELSE IF BaseRank(x) > BaseRank(y) THEN (IF reverse THEN 0 - 1 ELSE 1)
    ELSE 0

\* the last key, id: never nullish, and distinct ids never compare equal
CompareId(x, y) == IF x < y THEN 0 - 1 ELSE IF x > y THEN 1 ELSE 0

\* the comparators of sortInitiatives and of sortPeople / sortOrganisations
Compare(keys, a, b) ==
    IF keys = "initiatives"
    THEN IF CompareKey(a.deadline, b.deadline, TRUE) # 0
         THEN CompareKey(a.deadline, b.deadline, TRUE)
         ELSE IF CompareKey(a.shortName, b.shortName, FALSE) # 0
         THEN CompareKey(a.shortName, b.shortName, FALSE)
         ELSE CompareId(a.id, b.id)
    ELSE IF CompareKey(a.name, b.name, FALSE) # 0
         THEN CompareKey(a.name, b.name, FALSE)
         ELSE CompareId(a.id, b.id)

\* array.toSorted(comparator): stable
RECURSIVE InsertSorted(_, _, _)
InsertSorted(keys, x, s) ==
    IF s = <<>> THEN <<x>>
    ELSE IF Compare(keys, x, Head(s)) < 0 THEN <<x>> \o s
    ELSE <<Head(s)>> \o InsertSorted(keys, x, Tail(s))

RECURSIVE makeSorter(_, _)
makeSorter(keys, array) ==
    IF array = <<>> THEN <<>>
    ELSE InsertSorted(keys, array[Len(array)],
                      makeSorter(keys, SubSeq(array, 1, Len(array) - 1)))

sortPeople_Unsorted(array) == array
sortPeople(array) == makeSorter("people", array)

sortOrganisations(array) == makeSorter("organisations", array)

sortInitiatives(array) == makeSorter("initiatives", array)

\* array.filter(other => other.id !== id)
RECURSIVE FilterOut(_, _)
FilterOut(s, id) ==
    IF s = <<>> THEN <<>>
    ELSE IF Head(s).id = id THEN FilterOut(Tail(s), id)
    ELSE <<Head(s)>> \o FilterOut(Tail(s), id)

\* rows.map(...) over the rows a SELECT returns, in key order
RECURSIVE RowsOf(_, _)
RowsOf(table, k) ==
    IF k > Len(table) THEN <<>>
    ELSE (IF table[k] > 0 THEN <<k>> ELSE <<>>) \o RowsOf(table, k + 1)

\* the guard at the top of every add / remove method
MustInitialise_Never(resolved) == FALSE
MustInitialise(resolved) == ~resolved

\* PRIMARY KEY (personId, initiativeId) / (initiativeId, organisationId)
PrimaryKeyTaken_Never(count) == FALSE
PrimaryKeyTaken(count) == count > 0

\* an INSERT is refused when a NOT NULL column gets no value or the key exists
InsertRefused(columns, required, count) ==
    \/ ~(required \subseteq columns)
    \/ PrimaryKeyTaken(count)

SignatureColumns == JoinColumns \ {"organisationId"}
BackingColumns == JoinColumns \ {"personId"}

\* Person.fromId(personId, owner)
PersonFromId(p, owner) ==
    IF PersonRow(p).owner = owner
    THEN <<[id |-> p, name |-> PersonRow(p).name]>> ELSE <<>>

RECURSIVE MapPeople(_, _)
MapPeople(ids, owner) ==
    IF ids = <<>> THEN <<>>
    ELSE PersonFromId(Head(ids), owner) \o MapPeople(Tail(ids), owner)

RECURSIVE MapOrganisations(_)
MapOrganisations(ids) ==
    IF ids = <<>> THEN <<>>
    ELSE <<OrganisationRow(Head(ids))>> \o MapOrganisations(Tail(ids))

\* what resolveSignaturesOrganisations(owner) computes from the store
ResolvedSignatures(owner) == sortPeople(MapPeople(RowsOf(signatures, 1), owner))
ResolvedOrganisations ==
    sortOrganisations(MapOrganisations(RowsOf(initiativeOrganisations, 1)))

\* what person.resolveSignatures() computes from the store
ResolvedPersonSignatures ==
    sortInitiatives(IF signatures[CachedPerson] > 0
                    THEN <<TheInitiative>> ELSE <<>>)

Call(op, arg, threw) ==
    [op |-> op, arg |-> arg, threw |-> threw,
     again |-> /\ threw = "none" /\ rLast.op = op
               /\ rLast.arg = arg /\ rLast.threw = "none"]

RelStart ==
    /\ signatures = [p \in People |-> 0]
    /\ initiativeOrganisations = [o \in Organisations |-> 0]
    /\ iObj = [resolved |-> FALSE, signatures |-> <<>>, organisations |-> <<>>]
    /\ pObj = [resolved |-> FALSE, signatures |-> <<>>]
    /\ oObj = [o \in Organisations |-> [resolved |-> FALSE, initiatives |-> <<>>]]
    /\ iFor = "none"
    /\ iSole = FALSE
    /\ iOwn = FALSE
    /\ pSole = FALSE
    /\ rLast = [op |-> "none", arg |-> 0, threw |-> "none", again |-> FALSE]

\* initiative.resolveSignaturesOrganisations(owner)
InitiativeResolve(owner) ==
    /\ iObj' = [resolved |-> TRUE,
                signatures |-> ResolvedSignatures(owner),
                organisations |-> ResolvedOrganisations]
    /\ iFor' = owner
    /\ iSole' = TRUE
    /\ iOwn' = TRUE
    /\ rLast' = Call("Initiative.resolveSignaturesOrganisations", 0, "none")
    /\ UNCHANGED <<signatures, initiativeOrganisations, pObj, oObj, pSole>>
    /\ UNCHANGED otherThanRel

\* initiative.addSignature(person)
InitiativeAddSignature(p) ==
    /\ Len(iObj.signatures) < MaxCacheLen
    /\ IF MustInitialise(iObj.resolved)
       THEN /\ rLast' = Call("Initiative.addSignature", p, "must initialise")
            /\ UNCHANGED <<signatures, iObj, iOwn, pSole>>
       ELSE /\ rLast' = Call("Initiative.addSignature", p, "none")
            /\ IF InsertRefused({"initiativeId", "personId", "createdAt"},
                                SignatureColumns, signatures[p])
               THEN UNCHANGED <<signatures, iObj, iOwn, pSole>>
               ELSE /\ signatures' = [signatures EXCEPT ![p] = @ + 1]
                    /\ iObj' = [iObj EXCEPT !.signatures =
                                    sortPeople(Append(@,
                                        [id |-> p, name |-> PersonRow(p).name]))]
                    /\ iOwn' = (iOwn /\ PersonRow(p).owner = iFor)
                    /\ pSole' = (pSole /\ p # CachedPerson)
    /\ UNCHANGED <<initiativeOrganisations, pObj, oObj, iFor, iSole>>
    /\ UNCHANGED otherThanRel

\* initiative.removeSignature(person)
InitiativeRemoveSignature(p) ==
    /\ IF MustInitialise(iObj.resolved)
       THEN /\ rLast' = Call("Initiative.removeSignature", p, "must initialise")
            /\ UNCHANGED <<signatures, iObj, pSole>>
       ELSE /\ rLast' = Call("Initiative.removeSignature", p, "none")
            /\ signatures' = [signatures EXCEPT ![p] = 0]
            /\ iObj' = [iObj EXCEPT !.signatures = FilterOut(@, p)]
            /\ pSole' = (pSole /\ ~(p = CachedPerson /\ signatures[p] > 0))
    /\ UNCHANGED <<initiativeOrganisations, pObj, oObj, iFor, iSole, iOwn>>
    /\ UNCHANGED otherThanRel

\* initiative.addOrganisation(organisation)
InitiativeAddOrganisation(o) ==
    /\ IF MustInitialise(iObj.resolved)
       THEN /\ rLast' = Call("Initiative.addOrganisation", o, "must initialise")
            /\ UNCHANGED <<initiativeOrganisations, iObj>>
       ELSE /\ rLast' = Call("Initiative.addOrganisation", o, "none")
            /\ IF InsertRefused({"initiativeId", "organisationId", "createdAt"},
                                BackingColumns, initiativeOrganisations[o])
               THEN UNCHANGED <<initiativeOrganisations, iObj>>
               ELSE /\ initiativeOrganisations' =
                            [initiativeOrganisations EXCEPT ![o] = @ + 1]
                    /\ iObj' = [iObj EXCEPT !.organisations =
                                    sortOrganisations(Append(@, OrganisationRow(o)))]
    /\ UNCHANGED <<signatures, pObj, oObj, iFor, iSole, iOwn, pSole>>
    /\ UNCHANGED otherThanRel

\* initiative.removeOrganisation(organisation)
InitiativeRemoveOrganisation(o) ==
    /\ IF MustInitialise(iObj.resolved)
       THEN /\ rLast' = Call("Initiative.removeOrganisation", o, "must initialise")
            /\ UNCHANGED <<initiativeOrganisations, iObj>>
       ELSE /\ rLast' = Call("Initiative.removeOrganisation", o, "none")
            /\ initiativeOrganisations' = [initiativeOrganisations EXCEPT ![o] = 0]
            /\ iObj' = [iObj EXCEPT !.organisations = FilterOut(@, o)]
    /\ UNCHANGED <<signatures, pObj, oObj, iFor, iSole, iOwn, pSole>>
    /\ UNCHANGED otherThanRel

\* person.resolveSignatures()
PersonResolve ==
    /\ pObj' = [resolved |-> TRUE, signatures |-> ResolvedPersonSignatures]
    /\ pSole' = TRUE
    /\ rLast' = Call("Person.resolveSignatures", 0, "none")
    /\ UNCHANGED <<signatures, initiativeOrganisations, iObj, oObj, iFor,
                   iSole, iOwn>>
    /\ UNCHANGED otherThanRel

\* person.addSignature(initiative): the INSERT names no createdAt
PersonAddSignature ==
    /\ IF MustInitialise(pObj.resolved)
       THEN /\ rLast' = Call("Person.addSignature", 0, "must initialise")
            /\ UNCHANGED <<signatures, pObj, iSole>>
       ELSE /\ rLast' = Call("Person.addSignature", 0, "none")
            /\ IF InsertRefused({"initiativeId", "personId"},
                                SignatureColumns, signatures[CachedPerson])
               THEN UNCHANGED <<signatures, pObj, iSole>>
               ELSE /\ signatures' = [signatures EXCEPT ![CachedPerson] = @ + 1]
                    /\ pObj' = [pObj EXCEPT !.signatures =
                                    sortInitiatives(Append(@, TheInitiative))]
                    /\ iSole' = FALSE
    /\ UNCHANGED <<initiativeOrganisations, iObj, oObj, iFor, iOwn, pSole>>
    /\ UNCHANGED otherThanRel

\* person.removeSignature(initiative)
PersonRemoveSignature ==
    /\ IF MustInitialise(pObj.resolved)
       THEN /\ rLast' = Call("Person.removeSignature", 0, "must initialise")
            /\ UNCHANGED <<signatures, pObj, iSole>>
       ELSE /\ rLast' = Call("Person.removeSignature", 0, "none")
            /\ signatures' = [signatures EXCEPT ![CachedPerson] = 0]
            /\ pObj' = [pObj EXCEPT !.signatures = FilterOut(@, TheInitiative.id)]
            /\ iSole' = (iSole /\ signatures[CachedPerson] = 0)
    /\ UNCHANGED <<initiativeOrganisations, iObj, oObj, iFor, iOwn, pSole>>
    /\ UNCHANGED otherThanRel

\* organisation.resolveInitiatives(): prepare() of a SELECT on backings, a
\* table initDatabase does not create, throws before any field is assigned
OrganisationResolveInitiatives(o) ==
    /\ "backings" \notin Tables
    /\ rLast' = Call("Organisation.resolveInitiatives", o, "no such table")
    /\ UNCHANGED <<signatures, initiativeOrganisations, iObj, pObj, oObj,
                   iFor, iSole, iOwn, pSole>>
    /\ UNCHANGED otherThanRel

\* organisation.addInitiative(initiative): past the guard the INSERT on
\* backings throws inside the try and is swallowed
OrganisationAddInitiative(o) ==
    /\ "backings" \notin Tables
    /\ rLast' = Call("Organisation.addInitiative", o,
                     IF MustInitialise(oObj[o].resolved)
                     THEN "must initialise" ELSE "none")
    /\ UNCHANGED <<signatures, initiativeOrganisations, iObj, pObj, oObj,
                   iFor, iSole, iOwn, pSole>>
    /\ UNCHANGED otherThanRel

\* organisation.removeInitiative(initiative): past the guard the DELETE on
\* backings throws
OrganisationRemoveInitiative(o) ==
    /\ "backings" \notin Tables
    /\ rLast' = Call("Organisation.removeInitiative", o,
                     IF MustInitialise(oObj[o].resolved)
                     THEN "must initialise" ELSE "no such table")
    /\ UNCHANGED <<signatures, initiativeOrganisations, iObj, pObj, oObj,
                   iFor, iSole, iOwn, pSole>>
    /\ UNCHANGED otherThanRel

RelInit == RelStart /\ MigParked /\ SesParked /\ SlugParked /\ OwnParked /\ UrlParked /\ RedParked /\ BufParked /\ LogParked /\ PerParked /\ GoneParked /\ NamParked /\ FetParked /\ CasParked /\ SrtParked /\ AccParked /\ HndParked

RelNext ==
    \/ \E owner \in Logins : InitiativeResolve(owner)
    \/ \E p \in People : InitiativeAddSignature(p)
    \/ \E p \in People : InitiativeRemoveSignature(p)
    \/ \E o \in Organisations : InitiativeAddOrganisation(o)
    \/ \E o \in Organisations : InitiativeRemoveOrganisation(o)
    \/ PersonResolve
    \/ PersonAddSignature
    \/ PersonRemoveSignature
    \/ \E o \in Organisations : OrganisationResolveInitiatives(o)
    \/ \E o \in Organisations : OrganisationAddInitiative(o)
    \/ \E o \in Organisations : OrganisationRemoveInitiative(o)

SpecRel == RelInit /\ [][RelNext]_vars

-----------------------------------------------------------------------------
(* Claims about relations *)

GuardedCalls ==
    {"Initiative.addSignature", "Initiative.removeSignature",
     "Initiative.addOrganisation", "Initiative.removeOrganisation",
     "Person.addSignature", "Person.removeSignature",
     "Organisation.addInitiative", "Organisation.removeInitiative"}

\* was the object the call is made on resolved when the call was made
ReceiverResolved(call) ==
    IF call.op \in {"Initiative.addSignature", "Initiative.removeSignature",
                    "Initiative.addOrganisation", "Initiative.removeOrganisation"}
    THEN iObj.resolved
    ELSE IF call.op \in {"Person.addSignature", "Person.removeSignature"}
    THEN pObj.resolved
    ELSE oObj[call.arg].resolved

\* C6: an add or remove relation method called on an object whose relation
\* cache was never resolved throws 'must initialise' and changes neither the
\* join tables nor any in-memory cache.
C6_MustInitialise ==
    [][(rLast'.op \in GuardedCalls /\ ~ReceiverResolved(rLast')) =>
          /\ rLast'.threw = "must initialise"
          /\ UNCHANGED <<signatures, initiativeOrganisations, iObj, pObj, oObj>>
      ]_vars

\* C6 witness: a signature of the person is stored, removeSignature has been
\* called on the never-resolved Person object, it threw and the row is there
C6_Witness ==
    /\ rLast.op = "Person.removeSignature"
    /\ rLast.threw = "must initialise"
    /\ ~pObj.resolved
    /\ signatures[CachedPerson] = 1

\* C7: on the resolved initiative, addSignature(p) called twice in a row
\* leaves exactly one join row for the pair, throws nothing and (the second
\* time) changes nothing; removeSignature(p) for a person with no row and no
\* cache entry changes nothing and throws nothing.
C7_Idempotent ==
    [][/\ (rLast'.op = "Initiative.addSignature" /\ rLast'.again) =>
              /\ signatures'[rLast'.arg] = 1
              /\ rLast'.threw = "none"
              /\ UNCHANGED <<signatures, initiativeOrganisations, iObj, pObj>>
       /\ (/\ rLast'.op = "Initiative.removeSignature"
           /\ iObj.resolved
           /\ signatures[rLast'.arg] = 0
           /\ \A k \in 1..Len(iObj.signatures) :
                 iObj.signatures[k].id # rLast'.arg) =>
              /\ rLast'.threw = "none"
              /\ UNCHANGED <<signatures, initiativeOrganisations, iObj, pObj>>
      ]_vars

\* C7 witness: the second of two addSignature(p) calls in a row has returned
\* and the cache holds p once
C7_Witness ==
    /\ rLast.op = "Initiative.addSignature"
    /\ rLast.again
    /\ signatures[rLast.arg] = 1
    /\ Cardinality({k \in 1..Len(iObj.signatures) :
                       iObj.signatures[k].id = rLast.arg}) = 1

\* the caches of the Initiative object are what a resolve for the same owner
\* would compute now
InitiativeCacheFresh ==
    /\ iObj.signatures = ResolvedSignatures(iFor)
    /\ iObj.organisations = ResolvedOrganisations

PersonCacheFresh == pObj.signatures = ResolvedPersonSignatures

C9_SameJoinRelation ==
    /\ (/\ rLast.op = "Organisation.resolveInitiatives"
        /\ initiativeOrganisations[rLast.arg] > 0) =>
           /\ rLast.threw = "none"
           /\ \E k \in 1..Len(oObj[rLast.arg].initiatives) :
                 oObj[rLast.arg].initiatives[k].id = TheInitiative.id
    /\ (rLast.op = "Organisation.addInitiative" /\ rLast.threw = "none") =>
           initiativeOrganisations[rLast.arg] > 0

\* C9, the failing case: the initiative has added the organisation, the row
\* is stored and in the initiative's cache, and resolveInitiatives on the
\* organisation has thrown
C9_LinkNotSeen ==
    /\ rLast.op = "Organisation.resolveInitiatives"
    /\ rLast.threw = "no such table"
    /\ initiativeOrganisations[rLast.arg] = 1
    /\ \E k \in 1..Len(iObj.organisations) :
          iObj.organisations[k].id = rLast.arg
    /\ ~oObj[rLast.arg].resolved

-----------------------------------------------------------------------------
(* Asset.createFromUrl: the URL guard and the fetch *)

\* the addresses that occur, and the class the ip package puts them in
Addresses ==
    {"127.0.0.1", "10.0.0.1", "192.168.1.10", "169.254.169.254",
     "93.184.216.34", "::1", "2001:db8::1"}

\* ip.isV6Format(hostname)
isV6Format(a) == a \in {"::1", "2001:db8::1"}

\* ip.isPrivate(address): loopback and private ranges; a hostname that is
\* no address is not private (or makes ip throw, which is caught)
isPrivate(a) ==
    a \in {"127.0.0.1", "10.0.0.1", "192.168.1.10", "169.254.169.254", "::1"}

\* url.hostname of the URLs tried, with the addresses DNS holds for each
\* name, in the order the resolver lists them
Hostnames ==
    {"[::1]", "127.0.0.1", "10.0.0.1", "192.168.1.10", "169.254.169.254",
     "93.184.216.34", "localhost", "intranet.example", "example.org",
     "v6.example.org", "multi.example", "nx.example"}

DnsRecords(hostname) ==
    CASE hostname = "localhost" -> <<"127.0.0.1">>
      [] hostname = "intranet.example" -> <<"10.0.0.1">>
      [] hostname = "example.org" -> <<"93.184.216.34">>
      [] hostname = "v6.example.org" -> <<"2001:db8::1">>
      [] hostname = "multi.example" -> <<"93.184.216.34", "10.0.0.1">>
      [] hostname \in Addresses -> <<hostname>>
      [] OTHER -> <<>>

\* hostname.includes('[') || hostname.includes(']')
HasBracket(hostname) == hostname = "[::1]"

Protocols == {"http:", "https:", "ftp:"}

\* the arguments: a string URL.canParse refuses ('j3892'), or a URL
Urls ==
    {[parses |-> FALSE]} \cup
    {[parses |-> TRUE, protocol |-> p, hostname |-> h] :
        p \in Protocols, h \in Hostnames}

\* what the server answers, or how the request fails
Responses == {"image", "too large", "not an image", "redirect",
              "network error", "timeout"}

UrlStart ==
    /\ uPc = "idle"
    /\ uUrl = [parses |-> FALSE]
    /\ uResult = "none"
    /\ uRequested = {}
    /\ uWritten = 0

\* the part of _isInternal before `await lookup(hostname)`
InternalBeforeLookup(hostname) ==
    \/ HasBracket(hostname) \/ isV6Format(hostname)
    \/ isPrivate(hostname)

\* createFromUrl(url): _safeFetch, _validateUrl up to `await lookup(hostname)`
CreateFromUrl(url) ==
    /\ uPc \in {"idle", "done"}
    /\ uUrl' = url
    /\ uRequested' = {}
    /\ uWritten' = 0
    /\ IF ~url.parses
       THEN uPc' = "done" /\ uResult' = "Invalid url"
       ELSE IF url.protocol # "https:" /\ url.protocol # "http:"
       THEN uPc' = "done" /\ uResult' = "Invalid protocol"
       ELSE IF InternalBeforeLookup(url.hostname)
       THEN uPc' = "done" /\ uResult' = "Invalid url"
       ELSE uPc' = "lookup" /\ uResult' = "none"
    /\ UNCHANGED otherThanUrl

\* `await lookup(hostname)` answers with one address, the first it holds for
\* the name, or throws (caught: not internal); then the rest of _validateUrl
Lookup ==
    /\ uPc = "lookup"
    /\ LET records == DnsRecords(uUrl.hostname)
       IN IF records # <<>> /\ isPrivate(Head(records))
          THEN uPc' = "done" /\ uResult' = "Invalid url"
          ELSE uPc' = "fetch" /\ uResult' = "none"
    /\ UNCHANGED <<uUrl, uRequested, uWritten>>
    /\ UNCHANGED otherThanUrl

\* fetch(url, {signal, redirect: 'error'}): the connection goes to one of the
\* addresses the name has; then the checks of _safeFetch and createFromBuffer
Fetch(address, response) ==
    /\ uPc = "fetch"
    /\ address \in Range(DnsRecords(uUrl.hostname))
    /\ uRequested' = {uUrl.hostname, address}
    /\ uPc' = "done"
    /\ uResult' = CASE response \in {"redirect", "network error"} ->
                            "Error when fetching file."
                    [] response = "timeout" -> "AbortError"
                    [] response = "too large" -> "File is too large."
                    [] response = "not an image" -> "Invalid asset type."
                    [] response = "image" -> "asset"
    /\ uWritten' = IF response = "image" THEN 1 ELSE 0
    /\ UNCHANGED uUrl
    /\ UNCHANGED otherThanUrl

\* fetch on a name no address is known for
FetchUnresolved ==
    /\ uPc = "fetch"
    /\ DnsRecords(uUrl.hostname) = <<>>
    /\ uPc' = "done"
    /\ uResult' = "Error when fetching file."
    /\ UNCHANGED <<uUrl, uRequested, uWritten>>
    /\ UNCHANGED otherThanUrl

UrlInit ==
    /\ UrlStart
    /\ MigParked /\ SesParked /\ SlugParked /\ OwnParked /\ RelParked
    /\ RedParked
    /\ BufParked
    /\ LogParked
    /\ PerParked
    /\ GoneParked
    /\ NamParked
    /\ FetParked
    /\ CasParked
    /\ SrtParked
    /\ AccParked
    /\ HndParked

UrlNext ==
    \/ \E url \in Urls : CreateFromUrl(url)
    \/ Lookup
    \/ \E a \in Addresses, r \in Responses : Fetch(a, r)
    \/ FetchUnresolved

SpecUrl == UrlInit /\ [][UrlNext]_vars

-----------------------------------------------------------------------------
(* Claims about createFromUrl *)

\* the URLs the claim says are refused
MustBeRefused(url) ==
    \/ ~url.parses
    \/ url.protocol \notin {"http:", "https:"}
    \/ HasBracket(url.hostname)
    \/ isPrivate(url.hostname)
    \/ \E k \in 1..Len(DnsRecords(url.hostname)) :
          isPrivate(DnsRecords(url.hostname)[k])

InvalidUrlErrors == {"Invalid url", "Invalid protocol"}

\* C10: for a URL that is unparsable, not http/https, an IPv6 bracket
\* literal, a private or loopback address, or a hostname that resolves to a
\* private address, createFromUrl issues no request, writes no file, and
\* ends with an invalid-URL error.
C10_InternalUrlRefused ==
    (uPc # "idle" /\ MustBeRefused(uUrl)) =>
        /\ uRequested = {}
        /\ uWritten = 0
        /\ uPc = "done" => uResult \in InvalidUrlErrors

\* C10, the failing case: the name holds a public and a private address; the
\* guard saw the public one, the request went to the private one, and the
\* asset file was written
C10_PrivateAddressFetched ==
    /\ uPc = "done"
    /\ uUrl.parses /\ uUrl.hostname = "multi.example"
    /\ "10.0.0.1" \in uRequested
    /\ uResult = "asset" /\ uWritten = 1

\* the examples the claim lists are refused before any request
C10_ListedExamplesRefused ==
    /\ uPc = "done"
    /\ uUrl.parses /\ uUrl.protocol = "http:" /\ uUrl.hostname = "localhost"
    /\ uResult = "Invalid url" /\ uRequested = {} /\ uWritten = 0

-----------------------------------------------------------------------------
(* Asset._safeFetch and redirects, in its two versions: fetch with          *)
(* redirect: 'error', and fetch that follows redirects with the final URL   *)
(* validated again                                                          *)

\* fetch gives up after this many redirects
MaxRedirects == 2

SafeFetchVersions == {"redirect error", "revalidate"}

\* hostnames of the URLs asked for and of the Location headers answered
FetchHosts == {"example.org", "v6.example.org", "10.0.0.1", "localhost"}

\* _isInternal(url): the literal checks, then the one address lookup gives
isInternal(hostname) ==
    \/ InternalBeforeLookup(hostname)
    \/ /\ DnsRecords(hostname) # <<>>
       /\ isPrivate(Head(DnsRecords(hostname)))

RedStart ==
    /\ fVersion = "none"
    /\ fPc = "idle"
    /\ fCurrent = "none"
    /\ fHops = 0
    /\ fSent = {}
    /\ fValidated = {}
    /\ fAccepted = "none"
    /\ fResult = "none"

\* _safeFetch(url): `await this._validateUrl(url)`, then fetch is called
SafeFetch(version, hostname) ==
    /\ fPc \in {"idle", "done"}
    /\ fVersion' = version
    /\ fHops' = 0
    /\ fSent' = {}
    /\ fAccepted' = "none"
    /\ IF isInternal(hostname)
       THEN /\ fPc' = "done" /\ fResult' = "Invalid url"
            /\ fCurrent' = "none" /\ fValidated' = {}
       ELSE /\ fPc' = "request" /\ fResult' = "none"
            /\ fCurrent' = hostname /\ fValidated' = {hostname}
    /\ UNCHANGED otherThanRed

\* the request goes out and the server answers with a body
RespondBody ==
    /\ fPc = "request"
    /\ fSent' = fSent \cup {fCurrent}
    /\ IF fVersion = "redirect error"
       THEN /\ fPc' = "done" /\ fResult' = "buffer"
            /\ fAccepted' = fCurrent
       ELSE /\ fPc' = "revalidate"
            /\ UNCHANGED <<fResult, fAccepted>>
    /\ UNCHANGED <<fVersion, fCurrent, fHops, fValidated>>
    /\ UNCHANGED otherThanRed

\* the request goes out and the server answers with a redirect to location:
\* redirect: 'error' makes fetch reject; the default follows it
RespondRedirect(location) ==
    /\ fPc = "request"
    /\ fSent' = fSent \cup {fCurrent}
    /\ IF fVersion = "redirect error"
       THEN /\ fPc' = "done" /\ fResult' = "Error when fetching file."
            /\ UNCHANGED <<fCurrent, fHops>>
       ELSE IF fHops >= MaxRedirects
       THEN /\ fPc' = "done" /\ fResult' = "TypeError"
            /\ UNCHANGED <<fCurrent, fHops>>
       ELSE /\ fCurrent' = location /\ fHops' = fHops + 1
            /\ UNCHANGED <<fPc, fResult>>
    /\ UNCHANGED <<fVersion, fValidated, fAccepted>>
    /\ UNCHANGED otherThanRed

\* _validateUrl(response.url) throws for the final URL
FinalUrlRefused_Never(hostname) == FALSE
FinalUrlRefused(hostname) == isInternal(hostname)

\* `await this._validateUrl(response.url)`, then the body is read and returned
Revalidate ==
    /\ fPc = "revalidate"
    /\ fPc' = "done"
    /\ IF FinalUrlRefused(fCurrent)
       THEN /\ fResult' = "Invalid url"
            /\ UNCHANGED <<fValidated, fAccepted>>
       ELSE /\ fResult' = "buffer"
            /\ fValidated' = fValidated \cup {fCurrent}
            /\ fAccepted' = fCurrent
    /\ UNCHANGED <<fVersion, fCurrent, fHops, fSent>>
    /\ UNCHANGED otherThanRed

RedInit ==
    /\ RedStart
    /\ MigParked /\ SesParked /\ SlugParked /\ OwnParked /\ RelParked
    /\ UrlParked
    /\ BufParked
    /\ LogParked
    /\ PerParked
    /\ GoneParked
    /\ NamParked
    /\ FetParked
    /\ CasParked
    /\ SrtParked
    /\ AccParked
    /\ HndParked

RedNext ==
    \/ \E v \in SafeFetchVersions, h \in FetchHosts : SafeFetch(v, h)
    \/ RespondBody
    \/ \E h \in FetchHosts : RespondRedirect(h)
    \/ Revalidate

SpecRed == RedInit /\ [][RedNext]_vars

-----------------------------------------------------------------------------
(* Claims about redirects *)

\* C11: on every fetch path no request is sent to, and no content is
\* accepted from, a destination the guard has not validated: a redirect is
\* not followed, or its final URL is validated again.
C11_OnlyValidatedDestinations ==
    /\ fSent \subseteq fValidated
    /\ fAccepted # "none" => fAccepted \in fValidated

\* C11, the failing case: the version that follows redirects has sent a
\* request to a private address named by a Location header; the guard ran
\* on it only afterwards
C11_InternalRequested ==
    /\ fVersion = "revalidate"
    /\ fPc = "done" /\ fResult = "Invalid url"
    /\ "10.0.0.1" \in fSent
    /\ "10.0.0.1" \notin fValidated

\* C11 as amended: content is accepted only from a destination the guard
\* has validated and found not internal; with redirect: 'error' requests go
\* only to validated destinations, while the version that follows redirects
\* validates the final URL after the requests were sent.
C11_ContentOnlyFromValidated ==
    /\ fAccepted # "none" =>
          fAccepted \in fValidated /\ ~isInternal(fAccepted)
    /\ fVersion = "redirect error" => fSent \subseteq fValidated

\* C11 witness: a redirect to another public host was followed, the final
\* URL was validated again and its body returned
C11_Witness ==
    /\ fVersion = "revalidate" /\ fPc = "done"
    /\ fHops = 1
    /\ fSent = {"example.org", "v6.example.org"}
    /\ fAccepted = "v6.example.org" /\ fResult = "buffer"

-----------------------------------------------------------------------------
(* Asset.createFromBuffer: validation of size and sniffed type, then the    *)
(* write                                                                    *)

\* apiOptions.fileSizeLimit, in bytes of the model
fileSizeLimit == 2

\* createFromBuffer calls made
MaxBufferCalls == 2

AssetClasses == {"PdfAsset", "ImageAsset"}

\* what a buffer holds: the magic bytes of a format, plain text, an svg
\* document, a PDF with the text "<svg" somewhere in it, an executable
\* (magic bytes MZ) without and with that text
Contents ==
    {"%PDF", "jpeg", "png", "webp", "gif", "<svg", "%PDF <svg", "text",
     "MZ", "MZ <svg"}

\* an empty buffer holds nothing that could be sniffed
Buffers ==
    {b \in [byteLength : 0..(fileSizeLimit + 1), content : Contents] :
        b.byteLength = 0 => b.content = "text"}

Undetected == [ext |-> "none", mime |-> "undefined"]

\* fileTypeFromBuffer: anything that includes '<svg' is an svg, the rest is
\* what file-type finds in the magic bytes
fileTypeFromBuffer(buffer) ==
    CASE buffer.content \in {"<svg", "%PDF <svg", "MZ <svg"} ->
            [ext |-> "svg", mime |-> "image/svg+xml"]
      [] buffer.content = "MZ" ->
            [ext |-> "exe", mime |-> "application/x-msdownload"]
      [] buffer.content = "%PDF" -> [ext |-> "pdf", mime |-> "application/pdf"]
      [] buffer.content = "jpeg" -> [ext |-> "jpg", mime |-> "image/jpeg"]
      [] buffer.content = "png" -> [ext |-> "png", mime |-> "image/png"]
      [] buffer.content = "webp" -> [ext |-> "webp", mime |-> "image/webp"]
      [] buffer.content = "gif" -> [ext |-> "gif", mime |-> "image/gif"]
      [] OTHER -> Undetected

\* _validMimeTypes of PdfAsset and of ImageAsset
validMimeTypes(class) ==
    IF class = "PdfAsset"
    THEN {"application/pdf"}
    ELSE {"image/jpeg", "image/png", "image/webp", "image/svg+xml"}

\* `asset.byteLength > this.fileSizeLimit`
TooLarge_Never(buffer) == FALSE
TooLarge(buffer) == buffer.byteLength > fileSizeLimit

\* _validateAndGetExtension(asset): the error it throws, or "ok"
validateAndGetExtension(class, buffer) ==
    IF TooLarge(buffer)
    THEN "Asset file size is too large."
    ELSE IF \/ fileTypeFromBuffer(buffer) = Undetected
            \/ fileTypeFromBuffer(buffer).mime \notin validMimeTypes(class)
         THEN "Invalid asset type."
         ELSE "ok"

BufStart ==
    /\ bPc = "idle"
    /\ bClass = "none"
    /\ bBuffer = [byteLength |-> 0, content |-> "text"]
    /\ bCall = 0
    /\ bFiles = {}
    /\ bResult = "none"

\* createFromBuffer(buffer) up to the end of _validateAndGetExtension
CreateFromBuffer(class, buffer) ==
    /\ bPc \in {"idle", "done"}
    /\ bCall < MaxBufferCalls
    /\ bCall' = bCall + 1
    /\ bClass' = class
    /\ bBuffer' = buffer
    /\ IF validateAndGetExtension(class, buffer) = "ok"
       THEN /\ bPc' = "write" /\ bResult' = "none"
       ELSE /\ bPc' = "done"
            /\ bResult' = validateAndGetExtension(class, buffer)
    /\ UNCHANGED bFiles
    /\ UNCHANGED otherThanBuf

\* _write(optimised, extension): writeFile under a fresh name
Write ==
    /\ bPc = "write"
    /\ bFiles' = bFiles \cup
          {[call |-> bCall, class |-> bClass, buffer |-> bBuffer,
            ext |-> fileTypeFromBuffer(bBuffer).ext]}
    /\ bPc' = "optimiseFile"
    /\ UNCHANGED <<bClass, bBuffer, bCall, bResult>>
    /\ UNCHANGED otherThanBuf

\* writeFile rejects (disk full, directory missing): the call throws
WriteFails ==
    /\ bPc = "write"
    /\ bPc' = "done"
    /\ bResult' = "writeFile failed"
    /\ UNCHANGED <<bClass, bBuffer, bCall, bFiles>>
    /\ UNCHANGED otherThanBuf

\* optimiseFile(extension, path), whose failure is only logged, and the
\* return of the asset
OptimiseFile ==
    /\ bPc = "optimiseFile"
    /\ bPc' = "done"
    /\ bResult' = "asset"
    /\ UNCHANGED <<bClass, bBuffer, bCall, bFiles>>
    /\ UNCHANGED otherThanBuf

BufInit ==
    /\ BufStart
    /\ MigParked /\ SesParked /\ SlugParked /\ OwnParked /\ RelParked
    /\ UrlParked /\ RedParked
    /\ LogParked
    /\ PerParked
    /\ GoneParked
    /\ NamParked
    /\ FetParked
    /\ CasParked
    /\ SrtParked
    /\ AccParked
    /\ HndParked

BufNext ==
    \/ \E class \in AssetClasses, buffer \in Buffers :
          CreateFromBuffer(class, buffer)
    \/ Write
    \/ WriteFails
    \/ OptimiseFile

SpecBuf == BufInit /\ [][BufNext]_vars

\* size within the limit and sniffed type in the allow-list of the class
Acceptable(class, buffer) ==
    /\ buffer.byteLength <= fileSizeLimit
    /\ fileTypeFromBuffer(buffer).mime \in validMimeTypes(class)

\* C12: createFromBuffer writes a file and returns an Asset only for a buffer
\* whose byte length is within the limit and whose sniffed MIME type is in
\* the allow-list of the class it was called on; for any other buffer the
\* call ends in an error and has written no file.
C12_OnlyAcceptableWritten ==
    /\ \A f \in bFiles : Acceptable(f.class, f.buffer)
    /\ bResult = "asset" =>
          /\ Acceptable(bClass, bBuffer)
          /\ \E f \in bFiles : f.call = bCall
    /\ (bPc # "idle" /\ ~Acceptable(bClass, bBuffer)) =>
          /\ bPc = "done"
          /\ bResult \in {"Asset file size is too large.", "Invalid asset type."}
          /\ \A f \in bFiles : f.call # bCall

\* C12 witness: the first call ended without a file, the second call
\* wrote a file and returned its asset
C12_Witness ==
    /\ bPc = "done" /\ bResult = "asset" /\ bCall = 2
    /\ bClass = "ImageAsset" /\ bBuffer.content = "png"
    /\ bFiles = {[call |-> 2, class |-> "ImageAsset", buffer |-> bBuffer,
                  ext |-> "png"]}

-----------------------------------------------------------------------------
(* Login: create, fromCredentials, updatePassword, updateUsername           *)

\* rows of table logins
MaxLogins == 2

\* calls that wait for bcrypt.hash at the same time
MaxPending == 2

\* Date.now() goes up to here
MaxLoginTime == 2

Usernames == {"alice", "ALICE", "bob"}

\* 72x stands for 72 bytes that two longer passwords share
Passwords == {"pw1", "72x-A", "72x-B"}

NoLogin == 0

\* SQL upper(username)
upper(username) ==
    CASE username = "alice" -> "ALICE"
      [] username = "ALICE" -> "ALICE"
      [] OTHER -> "BOB"

\* bcrypt uses the first 72 bytes of the password
bcryptInput(password) ==
    IF password \in {"72x-A", "72x-B"} THEN "72x" ELSE password

\* bcrypt.hash(password, rounds); the salt plays no part in compare
bcryptHash(password) == [bcrypt |-> bcryptInput(password)]

\* bcrypt.compare(password, hash)
bcryptCompare(password, hash) == bcryptInput(password) = hash.bcrypt

\* fromUsername(username): the first row with upper(username) equal, or
\* NoLogin
fromUsername(username) ==
    LET hits == {i \in 1..Len(logins) :
                    upper(logins[i].username) = upper(username)}
    IN IF hits = {} THEN NoLogin
       ELSE CHOOSE i \in hits : \A j \in hits : i <= j

\* username TEXT NOT NULL UNIQUE: another row holds exactly this username
UniqueRefuses(username, self) ==
    \E i \in 1..Len(logins) : i # self /\ logins[i].username = username

\* the call was an update handed the value the row already holds
StoredValue(op, id, username, password) ==
    CASE op = "updatePassword" ->
            bcryptCompare(password, logins[id].passwordHash)
      [] op = "updateUsername" -> username = logins[id].username
      [] OTHER -> FALSE

Called(op, id, username, password, result, wrote, before) ==
    lLast' = [op |-> op, id |-> id, username |-> username,
              password |-> password, result |-> result, wrote |-> wrote,
              before |-> before,
              same |-> StoredValue(op, id, username, password)]

LogStart ==
    /\ logins = <<>>
    /\ lObj = <<>>
    /\ lPending = {}
    /\ lNow = 0
    /\ lLast = [op |-> "none", id |-> 0, username |-> "", password |-> "",
                result |-> "none", wrote |-> FALSE, before |-> 0,
                same |-> FALSE]

\* time passes
LoginTick ==
    /\ lNow < MaxLoginTime
    /\ lNow' = lNow + 1
    /\ UNCHANGED <<logins, lObj, lPending, lLast>>
    /\ UNCHANGED otherThanLog

\* Login.create up to `await bcrypt.hash`: the fromUsername check
LoginCreate(username, password) ==
    /\ Len(logins) + Cardinality({p \in lPending : p.op = "create"})
          < MaxLogins
    /\ Cardinality(lPending) < MaxPending
    /\ IF fromUsername(username) # NoLogin
       THEN /\ Called("create", NoLogin, username, password,
                      "already exists", FALSE, 0)
            /\ UNCHANGED lPending
       ELSE /\ lPending' = lPending \cup
                  {[op |-> "create", id |-> NoLogin, username |-> username,
                    password |-> password]}
            /\ Called("create", NoLogin, username, password, "awaiting",
                      FALSE, 0)
    /\ UNCHANGED <<logins, lObj, lNow>>
    /\ UNCHANGED otherThanLog

\* Login.create after the hash: INSERT INTO logins and the new Login
LoginCreateInsert(p) ==
    /\ p \in lPending /\ p.op = "create"
    /\ lPending' = lPending \ {p}
    /\ IF UniqueRefuses(p.username, NoLogin)
       THEN /\ Called("create", NoLogin, p.username, p.password,
                      "UNIQUE constraint failed", FALSE, 0)
            /\ UNCHANGED <<logins, lObj>>
       ELSE /\ logins' = Append(logins,
                  [userId |-> Len(logins) + 1, username |-> p.username,
                   passwordHash |-> bcryptHash(p.password),
                   createdAt |-> lNow, updatedAt |-> lNow])
            /\ lObj' = Append(lObj,
                  [username |-> p.username,
                   passwordHash |-> bcryptHash(p.password),
                   updatedAt |-> lNow])
            /\ Called("create", Len(logins) + 1, p.username, p.password,
                      "login", TRUE, 0)
    /\ UNCHANGED lNow
    /\ UNCHANGED otherThanLog

\* Login.fromCredentials(username, password)
LoginFromCredentials(username, password) ==
    /\ LET user == fromUsername(username)
       IN IF user # NoLogin
             /\ bcryptCompare(password, logins[user].passwordHash)
          THEN Called("fromCredentials", user, username, password, "login",
                      FALSE, 0)
          ELSE Called("fromCredentials", NoLogin, username, password,
                      "undefined", FALSE, 0)
    /\ UNCHANGED <<logins, lObj, lPending, lNow>>
    /\ UNCHANGED otherThanLog

\* login.updatePassword(newPassword) up to `await bcrypt.hash`
LoginUpdatePassword(id, newPassword) ==
    /\ id \in 1..Len(logins)
    /\ Cardinality(lPending) < MaxPending
    /\ ~\E p \in lPending : p.op = "updatePassword" /\ p.id = id
    /\ lPending' = lPending \cup
          {[op |-> "updatePassword", id |-> id, username |-> "",
            password |-> newPassword]}
    /\ Called("updatePassword", id, "", newPassword, "awaiting", FALSE,
              logins[id].updatedAt)
    /\ UNCHANGED <<logins, lObj, lNow>>
    /\ UNCHANGED otherThanLog

\* login.updatePassword after the hash: the UPDATE and the two fields
LoginUpdatePasswordWrite(p) ==
    /\ p \in lPending /\ p.op = "updatePassword"
    /\ lPending' = lPending \ {p}
    /\ logins' = [logins EXCEPT
          ![p.id].passwordHash = bcryptHash(p.password),
          ![p.id].updatedAt = lNow]
    /\ lObj' = [lObj EXCEPT
          ![p.id].passwordHash = bcryptHash(p.password),
          ![p.id].updatedAt = lNow]
    /\ Called("updatePassword", p.id, "", p.password, "done", TRUE,
              logins[p.id].updatedAt)
    /\ UNCHANGED lNow
    /\ UNCHANGED otherThanLog

\* login.updateUsername(newUsername)
LoginUpdateUsername(id, newUsername) ==
    /\ id \in 1..Len(logins)
    /\ IF newUsername = lObj[id].username
       THEN /\ Called("updateUsername", id, newUsername, "", "done", FALSE,
                      logins[id].updatedAt)
            /\ UNCHANGED <<logins, lObj>>
       ELSE IF UniqueRefuses(newUsername, id)
            THEN /\ Called("updateUsername", id, newUsername, "",
                           "UNIQUE constraint failed", FALSE,
                           logins[id].updatedAt)
                 /\ UNCHANGED <<logins, lObj>>
            ELSE /\ logins' = [logins EXCEPT ![id].username = newUsername,
                                             ![id].updatedAt = lNow]
                 /\ lObj' = [lObj EXCEPT ![id].username = newUsername,
                                         ![id].updatedAt = lNow]
                 /\ Called("updateUsername", id, newUsername, "", "done",
                           TRUE, logins[id].updatedAt)
    /\ UNCHANGED <<lPending, lNow>>
    /\ UNCHANGED otherThanLog

LogInit ==
    /\ LogStart
    /\ MigParked /\ SesParked /\ SlugParked /\ OwnParked /\ RelParked
    /\ UrlParked /\ RedParked /\ BufParked
    /\ PerParked
    /\ GoneParked
    /\ NamParked
    /\ FetParked
    /\ CasParked
    /\ SrtParked
    /\ AccParked
    /\ HndParked

LogNext ==
    \/ LoginTick
    \/ \E u \in Usernames, p \in Passwords : LoginCreate(u, p)
    \/ \E p \in lPending : LoginCreateInsert(p)
    \/ \E u \in Usernames, p \in Passwords : LoginFromCredentials(u, p)
    \/ \E id \in 1..MaxLogins, p \in Passwords : LoginUpdatePassword(id, p)
    \/ \E p \in lPending : LoginUpdatePasswordWrite(p)
    \/ \E id \in 1..MaxLogins, u \in Usernames : LoginUpdateUsername(id, u)

SpecLog == LogInit /\ [][LogNext]_vars

\* no two rows of logins hold usernames that are equal ignoring case
UniqueIgnoringCase(rows) ==
    \A i, j \in 1..Len(rows) :
        i # j => upper(rows[i].username) # upper(rows[j].username)

\* C13: usernames are unique ignoring case after any sequence of Login.create
\* and updateUsername, and a Login.create whose username equals an existing
\* one ignoring case ends in the duplicate-username error and inserts
\* nothing.
C13_UsernamesUnique ==
    /\ UniqueIgnoringCase(logins)
    /\ (/\ lLast.op = "create"
        /\ \E i \in 1..Len(logins) :
              /\ i # lLast.id
              /\ upper(logins[i].username) = upper(lLast.username))
          => lLast.result = "already exists" /\ ~lLast.wrote

\* C13 witness: updateUsername has renamed a login to a username that
\* another login holds in a different case
C13_RenamedToTaken ==
    /\ Len(logins) = 2
    /\ lLast.op = "updateUsername" /\ lLast.result = "done" /\ lLast.wrote
    /\ logins[1].username = "alice" /\ logins[2].username = "ALICE"
    /\ lPending = {}

\* the logins whose username equals the given one ignoring case and whose
\* stored hash the password verifies against
Authenticating(username, password) ==
    {i \in 1..Len(logins) :
        /\ upper(logins[i].username) = upper(username)
        /\ bcryptCompare(password, logins[i].passwordHash)}

\* C14: fromCredentials returns the login exactly when the username matches
\* a login ignoring case and the password verifies against its stored hash,
\* and undefined otherwise; once updatePassword(new) has completed, the new
\* password verifies and no other password does.
C14_CredentialsExact ==
    /\ lLast.op = "fromCredentials" =>
          IF Authenticating(lLast.username, lLast.password) = {}
          THEN lLast.id = NoLogin
          ELSE lLast.id \in Authenticating(lLast.username, lLast.password)
    /\ (lLast.op = "updatePassword" /\ lLast.result = "done") =>
          \A p \in Passwords :
              bcryptCompare(p, logins[lLast.id].passwordHash)
                  <=> p = lLast.password

\* C14 witness: the login named ALICE cannot sign in with its own password,
\* because fromUsername finds the login named alice first
C14_ShadowedLogin ==
    /\ Len(logins) = 2
    /\ logins[1].username = "alice" /\ logins[2].username = "ALICE"
    /\ logins[1].passwordHash = bcryptHash("pw1")
    /\ logins[2].passwordHash = bcryptHash("72x-A")
    /\ lLast.op = "fromCredentials" /\ lLast.username = "ALICE"
    /\ lLast.password = "72x-A" /\ lLast.result = "undefined"

\* C15: an update of a login that is handed the value already stored writes
\* nothing and leaves updatedAt where it was.
C15_StoredValueNoWrite ==
    (lLast.same /\ lLast.result = "done") =>
        /\ ~lLast.wrote
        /\ logins[lLast.id].updatedAt = lLast.before
        /\ lObj[lLast.id].updatedAt = lLast.before

\* C15 witness: updatePassword with the password already set has written
\* the row and moved updatedAt forward
C15_SamePasswordWritten ==
    /\ lLast.op = "updatePassword" /\ lLast.result = "done"
    /\ lLast.same /\ lLast.wrote
    /\ lLast.password = "pw1"
    /\ logins[lLast.id].updatedAt > lLast.before

-----------------------------------------------------------------------------
(* Person: the lookups by owner, updateName, and the signatures an          *)
(* initiative resolves for an owner                                         *)

\* rows of table people
MaxPersons == 3

\* Date.now() goes up to here
MaxPersonTime == 1

PersonIds == 1..MaxPersons

PersonNames == {"a", "A", "b"}

\* makeSlug(name, {appendRandomHex: false}) on the names of people
makePersonSlug(name) == IF name = "b" THEN "b" ELSE "a"

PersonSlugs == {makePersonSlug(n) : n \in PersonNames}

\* UNIQUE (slug, owner) of table people
SlugOwnerUnique(rows) ==
    \A i, j \in 1..Len(rows) :
        (i # j /\ rows[i].owner = rows[j].owner) => rows[i].slug # rows[j].slug

\* ids in ascending order, as the table is scanned
RECURSIVE Ascending(_)
Ascending(ids) ==
    IF ids = {} THEN <<>>
    ELSE LET least == CHOOSE i \in ids : \A j \in ids : i <= j
         IN <<least>> \o Ascending(ids \ {least})

\* _fromRow(row, owner) for each row: rows whose owner is not the expected
\* one give undefined
RECURSIVE personFromRow(_, _)
personFromRow(ids, owner) ==
    IF ids = <<>> THEN <<>>
    ELSE (IF perRows[Head(ids)].owner = owner
          THEN <<[id |-> Head(ids), name |-> perRows[Head(ids)].name]>>
          ELSE <<>>)
         \o personFromRow(Tail(ids), owner)

\* `.get`: the first row of a result, if any
Get(ids) == IF ids = <<>> THEN <<>> ELSE <<Head(ids)>>

\* `owner = :owner` of the WHERE clauses
OwnerIs(i, owner) == perRows[i].owner = owner

\* SELECT ... WHERE id = :id AND owner = :owner
SelectById(id, owner) ==
    Ascending({i \in PersonIds : i = id /\ OwnerIs(i, owner)})

\* SELECT ... WHERE slug = :slug AND owner = :owner
SelectBySlug(slug, owner) ==
    Ascending({i \in PersonIds : perRows[i].slug = slug /\ OwnerIs(i, owner)})

\* SELECT ... WHERE name = :name AND owner = :owner
SelectByName(name, owner) ==
    Ascending({i \in PersonIds : perRows[i].name = name /\ OwnerIs(i, owner)})

\* SELECT ... WHERE owner = :owner
SelectAll(owner) == Ascending({i \in PersonIds : OwnerIs(i, owner)})

personFromId(id, owner) == personFromRow(Get(SelectById(id, owner)), owner)
personFromSlug(slug, owner) == personFromRow(Get(SelectBySlug(slug, owner)), owner)
personFromName(name, owner) == personFromRow(Get(SelectByName(name, owner)), owner)
personAll(owner) == sortPeople(personFromRow(SelectAll(owner), owner))

\* signatureRows.map(({personId}) => Person.personFromId(personId, owner)) without
\* the undefined ones
RECURSIVE MapFromId_AnyOwner(_, _)
MapFromId_AnyOwner(ids, owner) ==
    IF ids = <<>> THEN <<>>
    ELSE <<[id |-> Head(ids), name |-> perRows[Head(ids)].name]>>
         \o MapFromId_AnyOwner(Tail(ids), owner)
RECURSIVE MapFromId(_, _)
MapFromId(ids, owner) ==
    IF ids = <<>> THEN <<>>
    ELSE personFromId(Head(ids), owner) \o MapFromId(Tail(ids), owner)

\* a call on the person target with the argument name has ended
ReturnedFor(op, owner, result, threw, id, before, target, name) ==
    perLast' = [op |-> op, owner |-> owner, result |-> result,
                threw |-> threw, id |-> id, before |-> before,
                target |-> target, name |-> name]

Returned(op, owner, result, threw, id, before) ==
    ReturnedFor(op, owner, result, threw, id, before, 0, "")

\* the rows the database holds when the process starts: any owners and names
\* that UNIQUE (slug, owner) allows, and any signatures of the initiative
PerStart ==
    /\ perRows \in {rows \in [PersonIds ->
                        {[name |-> n, slug |-> makePersonSlug(n),
                          owner |-> o, updatedAt |-> 0] :
                            n \in PersonNames, o \in Logins}] :
                      SlugOwnerUnique(rows)}
    /\ perObj = [i \in PersonIds |->
                    [name |-> perRows[i].name, slug |-> perRows[i].slug,
                     owner |-> perRows[i].owner]]
    /\ perSigned \in SUBSET PersonIds
    /\ perNow = 0
    /\ perLast = [op |-> "none", owner |-> "none", result |-> <<>>,
                  threw |-> "none", id |-> 0, before |-> 0,
                  target |-> 0, name |-> ""]

\* NOT NULL columns of table people
PeopleNotNull == {"slug", "name", "owner", "createdAt", "updatedAt"}

\* an id no person has had: the object slot is empty
FreeIds == {i \in PersonIds : perObj[i].owner = "none"}

SameName == "Person with the same name exists already."

\* Person.create(name, owner): the fromSlug check, then the INSERT of id,
\* slug, name and owner, whose failure is thrown as the same error
PersonCreate(name, owner) ==
    /\ IF \/ personFromSlug(makePersonSlug(name), owner) # <<>>
          \/ InsertRefused({"id", "slug", "name", "owner"}, PeopleNotNull, 0)
       THEN /\ ReturnedFor("create", owner, <<>>, SameName, 0, 0, 0, name)
            /\ UNCHANGED <<perRows, perObj>>
       ELSE \E i \in FreeIds :
            /\ perRows' = [perRows EXCEPT ![i] =
                   [name |-> name, slug |-> makePersonSlug(name),
                    owner |-> owner, updatedAt |-> 0]]
            /\ perObj' = [perObj EXCEPT ![i] =
                   [name |-> name, slug |-> makePersonSlug(name),
                    owner |-> owner]]
            /\ ReturnedFor("create", owner,
                           <<[id |-> i, name |-> name]>>, "none", i, 0, 0,
                           name)
    /\ UNCHANGED <<perSigned, perNow>>
    /\ UNCHANGED otherThanPer

\* time passes
PersonTick ==
    /\ perNow < MaxPersonTime
    /\ perNow' = perNow + 1
    /\ UNCHANGED <<perRows, perObj, perSigned, perLast>>
    /\ UNCHANGED otherThanPer

\* Person.personFromId(id, owner)
PersonFromIdCall(id, owner) ==
    /\ Returned("fromId", owner, personFromId(id, owner), "none", 0, 0)
    /\ UNCHANGED <<perRows, perObj, perSigned, perNow>>
    /\ UNCHANGED otherThanPer

\* Person.personFromSlug(slug, owner)
PersonFromSlug(slug, owner) ==
    /\ Returned("fromSlug", owner, personFromSlug(slug, owner), "none", 0, 0)
    /\ UNCHANGED <<perRows, perObj, perSigned, perNow>>
    /\ UNCHANGED otherThanPer

\* Person.fromName(name, owner)
PersonFromName(name, owner) ==
    /\ Returned("fromName", owner, personFromName(name, owner), "none", 0, 0)
    /\ UNCHANGED <<perRows, perObj, perSigned, perNow>>
    /\ UNCHANGED otherThanPer

\* Person.personAll(owner)
PersonAll(owner) ==
    /\ Returned("all", owner, personAll(owner), "none", 0, 0)
    /\ UNCHANGED <<perRows, perObj, perSigned, perNow>>
    /\ UNCHANGED otherThanPer

\* initiative.resolveSignaturesOrganisations(owner), the signatures
PersonResolvedFor(owner) ==
    /\ Returned("resolveSignaturesOrganisations", owner,
                sortPeople(MapFromId(Ascending(perSigned), owner)),
                "none", 0, 0)
    /\ UNCHANGED <<perRows, perObj, perSigned, perNow>>
    /\ UNCHANGED otherThanPer

\* person.updateName(newName)
PersonUpdateName(id, newName) ==
    /\ IF newName = perObj[id].name
       THEN /\ ReturnedFor("updateName", perObj[id].owner, <<>>, "none", 0,
                            perRows[id].updatedAt, id, newName)
            /\ UNCHANGED <<perRows, perObj>>
       ELSE IF personFromSlug(makePersonSlug(newName), perObj[id].owner) # <<>>
            THEN /\ ReturnedFor("updateName", perObj[id].owner, <<>>,
                                 "Person with the same name exists already.",
                                 0, perRows[id].updatedAt, id, newName)
                 /\ UNCHANGED <<perRows, perObj>>
            ELSE /\ perRows' = [perRows EXCEPT
                       ![id].name = newName,
                       ![id].slug = makePersonSlug(newName)]
                 /\ perObj' = [perObj EXCEPT
                       ![id].name = newName,
                       ![id].slug = makePersonSlug(newName)]
                 /\ ReturnedFor("updateName", perObj[id].owner, <<>>, "none",
                                id, perRows[id].updatedAt, id, newName)
    /\ UNCHANGED <<perSigned, perNow>>
    /\ UNCHANGED otherThanPer

PerInit ==
    /\ PerStart
    /\ MigParked /\ SesParked /\ SlugParked /\ OwnParked /\ RelParked
    /\ UrlParked /\ RedParked /\ BufParked /\ LogParked
    /\ GoneParked
    /\ NamParked
    /\ FetParked
    /\ CasParked
    /\ SrtParked
    /\ AccParked
    /\ HndParked

PerNext ==
    \/ PersonTick
    \/ \E id \in PersonIds, o \in Logins : PersonFromIdCall(id, o)
    \/ \E s \in PersonSlugs, o \in Logins : PersonFromSlug(s, o)
    \/ \E n \in PersonNames, o \in Logins : PersonFromName(n, o)
    \/ \E o \in Logins : PersonAll(o)
    \/ \E o \in Logins : PersonResolvedFor(o)
    \/ \E id \in PersonIds, n \in PersonNames : PersonUpdateName(id, n)
    \/ \E n \in PersonNames, o \in Logins : PersonCreate(n, o)

SpecPer == PerInit /\ [][PerNext]_vars

\* C16: an update that changes the row sets updatedAt, in the row and in
\* the object, to the time of the update, later than the value before
\* whenever the clock has moved on since.
C16_UpdatedAtSet ==
    (perLast.op = "updateName" /\ perLast.id # 0) =>
        /\ perRows[perLast.id].updatedAt = perNow
        /\ "updatedAt" \in DOMAIN perObj[perLast.id]
        /\ perObj[perLast.id].updatedAt = perNow
        /\ perNow > perLast.before =>
              perRows[perLast.id].updatedAt > perLast.before

\* C16 witness: updateName has renamed a person after the clock moved on,
\* and updatedAt of the row is what it was
C16_RenamedUpdatedAtKept ==
    /\ perLast.op = "updateName" /\ perLast.id = 1
    /\ perLast.threw = "none"
    /\ perRows[1].name = "b" /\ perObj[1].name = "b"
    /\ perNow = 1
    /\ perRows[1].updatedAt = 0 /\ perLast.before = 0

\* C20: Person.fromId, fromSlug, fromName and all, called with an owner,
\* return only people of that owner, and resolveSignaturesOrganisations
\* called with an owner puts only that owner's people into signatures,
\* whoever else has signed the initiative.
C20_OwnerIsolation ==
    perLast.op \in {"fromId", "fromSlug", "fromName", "all",
                    "resolveSignaturesOrganisations"} =>
        \A k \in 1..Len(perLast.result) :
            perRows[perLast.result[k].id].owner = perLast.owner

\* C20 witness: people of both logins have signed, and the signatures
\* resolved for l1 are the two people of l1 and not the one of l2
C20_Witness ==
    /\ perLast.op = "resolveSignaturesOrganisations" /\ perLast.owner = "l1"
    /\ perSigned = {1, 2, 3}
    /\ perRows[1].owner = "l1" /\ perRows[2].owner = "l1"
    /\ perRows[3].owner = "l2"
    /\ {perLast.result[k].id : k \in 1..Len(perLast.result)} = {1, 2}

-----------------------------------------------------------------------------
(* One initiative or organisation and its files: the calls of SpecOwn on    *)
(* the first aggregate created                                              *)

OwnNextSingle ==
    \/ AssetCreateFromBuffer
    \/ \E p \in AssetArgs, i \in AssetArgs \cup {NoAsset} :
          ownNextId = 0 /\ InitiativeCreateOwning(p, i)
    \/ \E i \in AssetArgs \cup {NoAsset} :
          ownNextId = 0 /\ OrganisationCreateOwning(i)
    \/ \E p \in AssetArgs : InitiativeUpdatePdf(1, p)
    \/ \E i \in AssetArgs \cup {NoAsset} : UpdateImage(1, i)
    \/ Rm(1)
    \/ AwaitRm
    \/ AwaitRmRejects
    \/ Crash
    \/ FromId(1)

SpecOwnSingle == OwnInit /\ [][OwnNextSingle]_vars

Column(op) == IF op = "updatePdf" THEN "pdf" ELSE "image"

\* C18: when the removal of an old file fails during updatePdf, updateImage
\* or rm, the call still returns without an error, the row holds what the
\* call wrote (or is deleted), and the object holds the new value.
C18_RmFailureSwallowed ==
    (ownLast.op # "none" /\ ownLast.done /\ ownLast.failed # {}) =>
        /\ ~ownLast.threw
        /\ IF ownLast.op = "rm"
           THEN /\ ~\E r \in ownRows : r.id = ownLast.id
                /\ ~ownObjs[ownLast.id].held
           ELSE /\ \E r \in ownRows :
                     /\ r.id = ownLast.id
                     /\ r[Column(ownLast.op)] = ownLast[Column(ownLast.op)]
                /\ ownObjs[ownLast.id].held
                /\ ownObjs[ownLast.id][Column(ownLast.op)]
                     = ownLast[Column(ownLast.op)]

\* C18 witness: updatePdf has returned after the removal of the old pdf
\* failed; the old file is still there, row and object name the new pdf
C18_Witness ==
    /\ ownLast.op = "updatePdf" /\ ownLast.done /\ ownLast.failed = {1}
    /\ ~ownLast.threw
    /\ 1 \in assetDirectory
    /\ \E r \in ownRows : r.id = 1 /\ r.pdf = 2
    /\ ownObjs[1].held /\ ownObjs[1].pdf = 2

\* the asset files a row names
NamedBy(r) == {r.pdf, r.image} \ {NoAsset}

\* C19: no sequence of create, updatePdf and updateImage calls makes two
\* rows of initiatives or organisations, or the pdf and the image column of
\* one row, name the same asset file.
C19_NoSharedAsset ==
    /\ \A r1, r2 \in ownRows : r1 # r2 => NamedBy(r1) \cap NamedBy(r2) = {}
    /\ \A r \in ownRows : r.pdf # NoAsset => r.pdf # r.image

\* C19 witness: two initiatives were created with the same PdfAsset and
\* both rows name its file
C19_TwoRowsOnePdf ==
    /\ ~ownPending.active
    /\ assetNames = 1 /\ assetDirectory = {1}
    /\ ownRows = {[id |-> 1, kind |-> "initiative", pdf |-> 1,
                   image |-> NoAsset],
                  [id |-> 2, kind |-> "initiative", pdf |-> 1,
                   image |-> NoAsset]}

\* C21: renaming a person to another name that gives the slug the person
\* already has succeeds and keeps the slug; the person's own row does not
\* count as a collision.
C21_OwnSlugRenameSucceeds ==
    (/\ perLast.op = "updateName"
     /\ perRows[perLast.target].slug = makePersonSlug(perLast.name)) =>
        /\ perLast.threw = "none"
        /\ perRows[perLast.target].name = perLast.name
        /\ perObj[perLast.target].name = perLast.name

\* C21 witness: the person named a was to be renamed A, which gives the
\* slug it has; updateName threw and the name is still a
C21_CaseChangeRefused ==
    /\ perLast.op = "updateName" /\ perLast.target = 1
    /\ perLast.name = "A"
    /\ perLast.threw = "Person with the same name exists already."
    /\ perRows[1].name = "a" /\ perRows[1].slug = "a"

\* another person of the owner holds the slug of the name
HeldByAnother(rows, target, owner, name) ==
    \E j \in PersonIds :
        /\ j # target
        /\ rows[j].owner = owner
        /\ rows[j].slug = makePersonSlug(name)

\* C22: Person.create and Person.updateName throw the 'same name' error
\* exactly when another person of the same owner holds the slug of the
\* name, and a call that throws leaves table people as it was.
C22_SameNameExactly ==
    [][(/\ perLast'.op \in {"create", "updateName"}
        /\ perLast' # perLast \/ perRows' # perRows) =>
          /\ perLast'.threw = SameName <=>
                HeldByAnother(perRows, perLast'.target, perLast'.owner,
                              perLast'.name)
          /\ perLast'.threw # "none" => perRows' = perRows]_vars

\* C22 witness: updateName threw 'same name' for a name whose slug no other
\* person of the owner holds
C22_ThrewWithoutOther ==
    /\ perLast.op = "updateName" /\ perLast.threw = SameName
    /\ perLast.target = 2 /\ perLast.name = "a"
    /\ perRows[2].name = "A"
    /\ ~HeldByAnother(perRows, 2, perLast.owner, "a")

\* C23: creating a person whose base slug another person of the owner holds
\* gives the new person that slug with the first free numeric suffix: -1 for
\* the second person, -2 for the third.
C23_SuffixAppended ==
    (/\ perLast.op = "create"
     /\ HeldByAnother(perRows, perLast.id, perLast.owner, perLast.name)) =>
        /\ perLast.threw = "none" /\ perLast.id # 0
        /\ \E k \in 1..MaxPersons :
              /\ perRows[perLast.id].slug =
                    SlugOf(makePersonSlug(perLast.name), k)
              /\ \A m \in 1..(k - 1) : \E j \in PersonIds :
                    /\ perRows[j].owner = perLast.owner
                    /\ perRows[j].slug =
                          SlugOf(makePersonSlug(perLast.name), m)

\* C23 witness: a second person named b was to be created for l1; the call
\* threw and no row has the slug b-1
C23_SecondCreateThrew ==
    /\ perLast.op = "create" /\ perLast.owner = "l1" /\ perLast.name = "b"
    /\ perLast.threw = SameName
    /\ perRows[1].owner = "l1" /\ perRows[1].slug = "b"
    /\ \A j \in PersonIds : perRows[j].slug # "b-1"

-----------------------------------------------------------------------------
(* Claims about session renewal and the sweep *)

\* more than 50% of the 7 days since createdAt have elapsed at time t
MoreThanHalfElapsed(createdAt, t) ==
    2 * (t - createdAt) * TimeUnitMs > 7 * 24 * 60 * 60 * 1000

\* C24 as stated: shouldRenew() is true exactly when more than 50% of the
\* 7-day window has elapsed and the session is not expired (isExpired() is
\* false).
C24_ShouldRenewExactly ==
    sLast.op = "shouldRenew" =>
        (sLast.found <=>
            /\ MoreThanHalfElapsed(sHandles[sLast.id].createdAt, now)
            /\ ~isExpired(sHandles[sLast.id].expiryDate, now))

\* C24: shouldRenew() is true exactly when more than 50% of the 7-day window
\* has elapsed and the expiry lies strictly in the future; it is false for a
\* fresh session, for an expired one, and at the instant of expiry itself.
C24_ShouldRenewBeforeExpiry ==
    sLast.op = "shouldRenew" =>
        (sLast.found <=>
            /\ MoreThanHalfElapsed(sHandles[sLast.id].createdAt, now)
            /\ sHandles[sLast.id].expiryDate > now)

\* C24 witness: a session created at day 0 answers true at day 4
C24_Witness ==
    /\ sLast.op = "shouldRenew" /\ sLast.found
    /\ sHandles[sLast.id].createdAt = 0 /\ now = 4

\* Session.fromSessionId over the table rows at time t
fromSessionIdOf(rows, t, id) ==
    {r \in fromRow({x \in rows : x.sessionId = id}) : ~isExpired(r.expires, t)}

\* C25: renew() on a session that is not expired adds one row for the same
\* login, with an id no row had and an expiry 7 days after the time of the
\* call; every row stored before is still stored unchanged, and
\* fromSessionId answers for the old id as it did before.
C25_RenewAddsRow ==
    [][(/\ sLast'.op = "renew"
        /\ sHandles[sLast'.id].expiryDate >= now) =>
          /\ sLast'.found
          /\ sessions \subseteq sessions'
          /\ Cardinality(sessions' \ sessions) = 1
          /\ \A r \in sessions' \ sessions :
                /\ r.userId = sHandles[sLast'.id].user
                /\ r.sessionId # sLast'.id
                /\ r.sessionId \notin {x.sessionId : x \in sessions}
                /\ (r.expires - now) * TimeUnitMs = 7 * 24 * 60 * 60 * 1000
          /\ fromSessionIdOf(sessions', now', sLast'.id) =
                fromSessionIdOf(sessions, now, sLast'.id)]_vars

\* C25 witness: session 1 was renewed at day 4; both rows are stored and
\* the old id is still accepted
C25_Witness ==
    /\ sLast.op = "renew" /\ sLast.found /\ sLast.id = 1
    /\ now = 4
    /\ \E r \in SessionRow(1) : r.expires = SESSION_DURATION
    /\ \E r \in SessionRow(2) : r.createdAt = 4
    /\ fromSessionId(1) # {}

\* C26: renew() on an expired session returns undefined and adds no row.
C26_ExpiredNotRenewed ==
    [][(/\ sLast'.op = "renew"
        /\ sHandles[sLast'.id].expiryDate < now) =>
          /\ ~sLast'.found
          /\ sessions' = sessions
          /\ sNextId' = sNextId]_vars

\* C26 witness: renew() was called on an expired session while another id
\* could still be given out, and answered undefined
C26_Witness ==
    /\ sLast.op = "renew" /\ ~sLast.found
    /\ sHandles[sLast.id].expiryDate < now
    /\ sNextId < MaxSessions

\* C27: when removeExpired() has run, no row whose expiry is in the past is
\* stored, and every row whose expiry was in the future is still stored.
C27_SweepExact ==
    [][sLast'.op = "removeExpired" =>
          /\ \A r \in sessions' : ~(r.expires < now')
          /\ \A r \in sessions : r.expires > now => r \in sessions']_vars

\* C27 witness: after a sweep the row of expired session 1 is gone and the
\* row of session 2, which expires later, is stored
C27_Witness ==
    /\ sLast.op = "removeExpired"
    /\ 1 \in sWasExpired /\ SessionRow(1) = {}
    /\ \E r \in SessionRow(2) : r.expires > now

-----------------------------------------------------------------------------
(* Removal of initiatives, organisations and people *)

GInitiatives == {"i1", "i2"}
GOrganisations == {"o1"}
GPeople == {"p1"}
GIds == GInitiatives \cup GOrganisations \cup GPeople

\* values of the column an update writes: fullName, website, name
GValues == {"v1", "v2"}

\* PRAGMA foreign_keys=ON
ForeignKeysOn_Off == FALSE
ForeignKeysOn == TRUE

\* SELECT ... WHERE id = :id, mapped by _fromRow: the object or undefined
RowOf(id) == gRows[id]

\* a FOREIGN KEY of the row to insert names a parent that is not stored
ForeignKeyFails(parents) ==
    ForeignKeysOn /\ \E id \in parents : RowOf(id) = <<>>

\* UPDATE ... SET column = :value WHERE id = :id
UpdateWhereId(id, value) ==
    [gRows EXCEPT ![id] = IF @ = <<>> THEN <<>> ELSE <<value>>]

\* DELETE ... WHERE id = :id, with ON DELETE CASCADE of both join tables
DeleteWhereId(id) ==
    /\ gRows' = [gRows EXCEPT ![id] = <<>>]
    /\ gSignatures' =
         IF ForeignKeysOn /\ RowOf(id) # <<>>
         THEN {s \in gSignatures : s[1] # id /\ s[2] # id}
         ELSE gSignatures
    /\ gInitiativeOrganisations' =
         IF ForeignKeysOn /\ RowOf(id) # <<>>
         THEN {s \in gInitiativeOrganisations : s[1] # id /\ s[2] # id}
         ELSE gInitiativeOrganisations

Did(op, id, threw) == gLast' = [op |-> op, id |-> id, threw |-> threw]

GoneStart ==
    /\ gRows = [id \in GIds |-> <<"v1">>]
    /\ gObjs = [id \in GIds |-> [value |-> "v1", resolved |-> FALSE]]
    /\ gSignatures \in SUBSET (GPeople \X GInitiatives)
    /\ gInitiativeOrganisations \in SUBSET (GInitiatives \X GOrganisations)
    /\ gRemoved = {}
    /\ gLast = [op |-> "none", id |-> "", threw |-> "none"]

\* initiative.resolveSignaturesOrganisations(owner), person.resolveSignatures()
ResolveRelations(id) ==
    /\ gObjs' = [gObjs EXCEPT ![id].resolved = TRUE]
    /\ Did("resolve", id, "none")
    /\ UNCHANGED <<gRows, gSignatures, gInitiativeOrganisations, gRemoved>>
    /\ UNCHANGED otherThanGone

\* organisation.resolveInitiatives(): its SELECT reads table backings, which
\* the schema does not create
OrganisationResolveInitiativesOf(o) ==
    /\ Did("resolve", o, "no such table: backings")
    /\ UNCHANGED <<gRows, gObjs, gSignatures, gInitiativeOrganisations, gRemoved>>
    /\ UNCHANGED otherThanGone

\* initiative.updateFullName(v), organisation.updateWebsite(v),
\* person.updateName(v) on the object held for id
UpdateValue(id, v) ==
    /\ IF v = gObjs[id].value
       THEN UNCHANGED <<gRows, gObjs>>
       ELSE /\ gRows' = UpdateWhereId(id, v)
            /\ gObjs' = [gObjs EXCEPT ![id].value = v]
    /\ Did("update", id, "none")
    /\ UNCHANGED <<gSignatures, gInitiativeOrganisations, gRemoved>>
    /\ UNCHANGED otherThanGone

\* initiative.rm(), organisation.rm(), person.rm() on the object held for id
RmOf(id) ==
    /\ DeleteWhereId(id)
    /\ gRemoved' = gRemoved \cup {id}
    /\ Did("rm", id, "none")
    /\ UNCHANGED gObjs
    /\ UNCHANGED otherThanGone

\* initiative.addSignature(person)
InitiativeAddSignatureOf(i, p) ==
    /\ IF MustInitialise(gObjs[i].resolved)
       THEN /\ Did("Initiative.addSignature", i, "must initialise")
            /\ UNCHANGED gSignatures
       ELSE /\ Did("Initiative.addSignature", i, "none")
            /\ gSignatures' =
                 IF \/ InsertRefused({"initiativeId", "personId", "createdAt"},
                                     SignatureColumns,
                                     Cardinality(gSignatures \cap {<<p, i>>}))
                    \/ ForeignKeyFails({i, p})
                 THEN gSignatures
                 ELSE gSignatures \cup {<<p, i>>}
    /\ UNCHANGED <<gRows, gObjs, gInitiativeOrganisations, gRemoved>>
    /\ UNCHANGED otherThanGone

\* initiative.removeSignature(person)
InitiativeRemoveSignatureOf(i, p) ==
    /\ IF MustInitialise(gObjs[i].resolved)
       THEN /\ Did("Initiative.removeSignature", i, "must initialise")
            /\ UNCHANGED gSignatures
       ELSE /\ Did("Initiative.removeSignature", i, "none")
            /\ gSignatures' = gSignatures \ {<<p, i>>}
    /\ UNCHANGED <<gRows, gObjs, gInitiativeOrganisations, gRemoved>>
    /\ UNCHANGED otherThanGone

\* initiative.addOrganisation(organisation)
InitiativeAddOrganisationOf(i, o) ==
    /\ IF MustInitialise(gObjs[i].resolved)
       THEN /\ Did("Initiative.addOrganisation", i, "must initialise")
            /\ UNCHANGED gInitiativeOrganisations
       ELSE /\ Did("Initiative.addOrganisation", i, "none")
            /\ gInitiativeOrganisations' =
                 IF \/ InsertRefused({"initiativeId", "organisationId",
                                      "createdAt"}, BackingColumns,
                                     Cardinality(gInitiativeOrganisations
                                                 \cap {<<i, o>>}))
                    \/ ForeignKeyFails({i, o})
                 THEN gInitiativeOrganisations
                 ELSE gInitiativeOrganisations \cup {<<i, o>>}
    /\ UNCHANGED <<gRows, gObjs, gSignatures, gRemoved>>
    /\ UNCHANGED otherThanGone

\* initiative.removeOrganisation(organisation)
InitiativeRemoveOrganisationOf(i, o) ==
    /\ IF MustInitialise(gObjs[i].resolved)
       THEN /\ Did("Initiative.removeOrganisation", i, "must initialise")
            /\ UNCHANGED gInitiativeOrganisations
       ELSE /\ Did("Initiative.removeOrganisation", i, "none")
            /\ gInitiativeOrganisations' = gInitiativeOrganisations \ {<<i, o>>}
    /\ UNCHANGED <<gRows, gObjs, gSignatures, gRemoved>>
    /\ UNCHANGED otherThanGone

\* person.addSignature(initiative): the INSERT names no createdAt
PersonAddSignatureOf(p, i) ==
    /\ IF MustInitialise(gObjs[p].resolved)
       THEN /\ Did("Person.addSignature", p, "must initialise")
            /\ UNCHANGED gSignatures
       ELSE /\ Did("Person.addSignature", p, "none")
            /\ gSignatures' =
                 IF \/ InsertRefused({"initiativeId", "personId"},
                                     SignatureColumns,
                                     Cardinality(gSignatures \cap {<<p, i>>}))
                    \/ ForeignKeyFails({i, p})
                 THEN gSignatures
                 ELSE gSignatures \cup {<<p, i>>}
    /\ UNCHANGED <<gRows, gObjs, gInitiativeOrganisations, gRemoved>>
    /\ UNCHANGED otherThanGone

\* person.removeSignature(initiative)
PersonRemoveSignatureOf(p, i) ==
    /\ IF MustInitialise(gObjs[p].resolved)
       THEN /\ Did("Person.removeSignature", p, "must initialise")
            /\ UNCHANGED gSignatures
       ELSE /\ Did("Person.removeSignature", p, "none")
            /\ gSignatures' = gSignatures \ {<<p, i>>}
    /\ UNCHANGED <<gRows, gObjs, gInitiativeOrganisations, gRemoved>>
    /\ UNCHANGED otherThanGone

\* organisation.addInitiative(initiative), organisation.removeInitiative:
\* the guard throws, the object never having been resolved
OrganisationAddInitiativeOf(o, i) ==
    /\ MustInitialise(gObjs[o].resolved)
    /\ Did("Organisation.addInitiative", o, "must initialise")
    /\ UNCHANGED <<gRows, gObjs, gSignatures, gInitiativeOrganisations, gRemoved>>
    /\ UNCHANGED otherThanGone

GoneInit == GoneStart /\ MigParked /\ SesParked /\ SlugParked /\ OwnParked /\ RelParked /\ UrlParked /\ RedParked /\ BufParked /\ LogParked /\ PerParked /\ NamParked /\ FetParked /\ CasParked /\ SrtParked /\ AccParked /\ HndParked

GoneNext ==
    \/ \E id \in GInitiatives \cup GPeople : ResolveRelations(id)
    \/ \E o \in GOrganisations : OrganisationResolveInitiativesOf(o)
    \/ \E id \in GIds, v \in GValues : UpdateValue(id, v)
    \/ \E id \in GIds : RmOf(id)
    \/ \E i \in GInitiatives, p \in GPeople : InitiativeAddSignatureOf(i, p)
    \/ \E i \in GInitiatives, p \in GPeople : InitiativeRemoveSignatureOf(i, p)
    \/ \E i \in GInitiatives, o \in GOrganisations :
          InitiativeAddOrganisationOf(i, o)
    \/ \E i \in GInitiatives, o \in GOrganisations :
          InitiativeRemoveOrganisationOf(i, o)
    \/ \E p \in GPeople, i \in GInitiatives : PersonAddSignatureOf(p, i)
    \/ \E p \in GPeople, i \in GInitiatives : PersonRemoveSignatureOf(p, i)
    \/ \E o \in GOrganisations, i \in GInitiatives :
          OrganisationAddInitiativeOf(o, i)

SpecGone == GoneInit /\ [][GoneNext]_vars

\* C28: once rm() has run on an initiative, an organisation or a person, no
\* row with its id is stored (fromId and fromSlug find nothing for it),
\* whatever is later called on the object still held, and no row of
\* signatures or initiativeOrganisations names its id.
C28_RemovedStaysRemoved ==
    \A id \in gRemoved :
        /\ RowOf(id) = <<>>
        /\ \A s \in gSignatures \cup gInitiativeOrganisations :
              s[1] # id /\ s[2] # id

\* C28 witness: addSignature was called on the resolved object of a removed
\* initiative for a person that is stored, after an update on that object
C28_Witness ==
    /\ gLast = [op |-> "Initiative.addSignature", id |-> "i1",
                threw |-> "none"]
    /\ "i1" \in gRemoved /\ gObjs["i1"].resolved
    /\ gObjs["i1"].value = "v2"
    /\ RowOf("p1") # <<>>

-----------------------------------------------------------------------------
(* Asset.fromName and the file system *)

MaxNameLen == 3

\* a name is a sequence of tokens: a file name text, "..", and the two
\* separators; a path is a sequence of segments, each a sequence of tokens
NameTokens == {"f", "..", "/", "\\"}
AssetNames == UNION {[1..n -> NameTokens] : n \in 0..MaxNameLen}

\* assetDirectory, a file: URL ending in "/", as the segments of its path
AssetDirectoryPath == <<<<"data">>, <<"assets">>>>

\* the directories that exist
Directories == {<<>>, <<<<"data">>>>, <<<<"data">>, <<"assets">>>>}

\* the regular files that may exist: one in the asset directory, one in its
\* parent, one in the root
FilePaths ==
    {<<<<"data">>, <<"assets">>, <<"f">>>>, <<<<"data">>, <<"f">>>>, <<<<"f">>>>}

\* path.basename (POSIX): trailing "/" dropped, then what follows the last "/"
RECURSIVE StripTrailing(_)
StripTrailing(name) ==
    IF name # <<>> /\ name[Len(name)] = "/"
    THEN StripTrailing(SubSeq(name, 1, Len(name) - 1))
    ELSE name

RECURSIVE AfterLastSlash(_, _)
AfterLastSlash(name, k) ==
    IF k = 0 THEN name
    ELSE IF name[k] = "/" THEN SubSeq(name, k + 1, Len(name))
    ELSE AfterLastSlash(name, k - 1)

basename(name) ==
    AfterLastSlash(StripTrailing(name), Len(StripTrailing(name)))

\* the URL parser ends a path segment of a file: URL at "/" and at "\"
IsSeparator(c) == c \in {"/", "\\"}

\* one finished segment applied to the path: ".." drops the last segment,
\* an empty one changes nothing, any other is appended
Shorten(path) == IF path = <<>> THEN <<>> ELSE SubSeq(path, 1, Len(path) - 1)
ApplySegment(path, seg) ==
    IF seg = <<"..">> THEN Shorten(path)
    ELSE IF seg = <<>> THEN path
    ELSE Append(path, seg)

\* new URL(name, assetDirectory): the relative reference read token by token
RECURSIVE ResolveFrom(_, _, _, _)
ResolveFrom(path, seg, name, k) ==
    IF k > Len(name)
    THEN [path |-> ApplySegment(path, seg),
          dir |-> seg = <<>> \/ seg = <<"..">>]
    ELSE IF IsSeparator(name[k])
    THEN ResolveFrom(IF k = 1 THEN <<>> ELSE ApplySegment(path, seg),
                     <<>>, name, k + 1)
    ELSE ResolveFrom(path, Append(seg, name[k]), name, k + 1)

resolvePath(name) == ResolveFrom(AssetDirectoryPath, <<>>, name, 1)

\* a reference that starts with two separators names a host, which
\* fileURLToPath refuses
NamesHost(name) ==
    Len(name) >= 2 /\ IsSeparator(name[1]) /\ IsSeparator(name[2])

\* stat(url) resolves: the path is a directory, or a regular file and the
\* URL does not end in a separator
StatResolves(name, files) ==
    /\ ~NamesHost(name)
    /\ \/ resolvePath(name).path \in Directories
       \/ ~resolvePath(name).dir /\ resolvePath(name).path \in files

\* Asset.assetFromName(name): the Asset of the basename, or undefined
assetFromName(name, files) ==
    IF StatResolves(basename(name), files) THEN <<basename(name)>> ELSE <<>>

NamStart ==
    /\ nFiles \in SUBSET FilePaths
    /\ nHeld = <<>>
    /\ nLast = [op |-> "none", name |-> <<>>, path |-> <<>>, dir |-> FALSE,
                result |-> <<>>]

\* Asset.assetFromName(name)
AssetFromName(name) ==
    /\ nLast' = [op |-> "fromName", name |-> name,
                 path |-> resolvePath(basename(name)).path,
                 dir |-> resolvePath(basename(name)).dir,
                 result |-> assetFromName(name, nFiles)]
    /\ nHeld' = assetFromName(name, nFiles)
    /\ UNCHANGED nFiles
    /\ UNCHANGED otherThanNam

\* Asset._write: a file appears in the asset directory
AssetWrite ==
    /\ nFiles' = nFiles \cup {Append(AssetDirectoryPath, <<"f">>)}
    /\ nLast' = [nLast EXCEPT !.op = "write"]
    /\ UNCHANGED nHeld
    /\ UNCHANGED otherThanNam

\* asset.rm() on the held object: rm(_resolvePath()) removes a regular file
\* and rejects for anything else
AssetRm ==
    /\ nHeld # <<>>
    /\ nFiles' =
         IF ~NamesHost(nHeld[1]) /\ ~resolvePath(nHeld[1]).dir
         THEN nFiles \ {resolvePath(nHeld[1]).path}
         ELSE nFiles
    /\ nLast' = [op |-> "rm", name |-> nHeld[1],
                 path |-> resolvePath(nHeld[1]).path,
                 dir |-> resolvePath(nHeld[1]).dir,
                 result |-> assetFromName(nHeld[1], nFiles')]
    /\ UNCHANGED nHeld
    /\ UNCHANGED otherThanNam

NamInit == NamStart /\ MigParked /\ SesParked /\ SlugParked /\ OwnParked /\ RelParked /\ UrlParked /\ RedParked /\ BufParked /\ LogParked /\ PerParked /\ GoneParked /\ FetParked /\ CasParked /\ SrtParked /\ AccParked /\ HndParked

NamNext ==
    \/ \E name \in AssetNames : AssetFromName(name)
    \/ AssetWrite
    \/ AssetRm

SpecName == NamInit /\ [][NamNext]_vars

\* a regular file directly inside the asset directory
DirectlyInside(path, dir) ==
    /\ ~dir
    /\ Len(path) = Len(AssetDirectoryPath) + 1
    /\ SubSeq(path, 1, Len(AssetDirectoryPath)) = AssetDirectoryPath

\* C29: whatever name is given, fromName stats only a path directly inside
\* the asset directory and returns an Asset exactly when a file exists
\* there; after rm() on an asset, fromName of its name returns undefined.
C29_OnlyInsideAssetDirectory ==
    /\ nLast.op = "fromName" =>
          (nLast.result # <<>> <=>
              /\ DirectlyInside(nLast.path, nLast.dir)
              /\ nLast.path \in nFiles)
    /\ nLast.op = "rm" => nLast.result = <<>>

\* C29 witness: for the name ..\f an Asset is returned whose path is the
\* file f of the parent directory, while the asset directory holds no file
C29_ParentFileResolved ==
    /\ nLast.op = "fromName"
    /\ nLast.name = <<"..", "\\", "f">>
    /\ nLast.result = <<nLast.name>>
    /\ nLast.path = <<<<"data">>, <<"f">>>>
    /\ Append(AssetDirectoryPath, <<"f">>) \notin nFiles

-----------------------------------------------------------------------------
(* Claims about disguised files *)

\* the buffer holds an svg document or a raster image
ImageContent(buffer) == buffer.content \in {"<svg", "jpeg", "png", "webp", "gif"}

\* C30: ImageAsset.createFromBuffer rejects every buffer that holds neither
\* an svg document nor a raster image: it returns no asset for it and
\* stores no file of it.
C30_OnlyImagesStored ==
    /\ \A f \in bFiles : f.class = "ImageAsset" => ImageContent(f.buffer)
    /\ (bClass = "ImageAsset" /\ bResult = "asset") => ImageContent(bBuffer)

\* C30 witness: an executable that has the text "<svg" in it was given to
\* ImageAsset, stored as an .svg file and returned as an asset
C30_ExecutableStored ==
    /\ bPc = "done" /\ bResult = "asset"
    /\ bClass = "ImageAsset" /\ bBuffer.content = "MZ <svg"
    /\ \E f \in bFiles :
          f.call = bCall /\ f.buffer = bBuffer /\ f.ext = "svg"

-----------------------------------------------------------------------------
(* Asset.createFromUrl: validation, the 5 s timer, the one fetch            *)

\* setTimeout(() => controller.abort(), 5e3), in seconds
TimeoutSeconds == 5000 \div 1000

\* createFromUrl calls made
MaxFetchCalls == 2

\* fetch(url, {signal, redirect: 'error'}): the signal of the controller is
\* given to fetch
SignalGiven_Not == FALSE
SignalGiven == TRUE

Fetching == tPc \in {"headers", "body"}

FetStart == FetParked

\* createFromUrl(url): _safeFetch begins with `await this._validateUrl(url)`
CreateFromUrlTimed(hostname) ==
    /\ tPc \in {"idle", "done"}
    /\ tCalls < MaxFetchCalls
    /\ tCalls' = tCalls + 1
    /\ tPc' = "validate"
    /\ tHost' = hostname
    /\ tTimer' = "none"
    /\ tElapsed' = 0
    /\ tRequests' = 0
    /\ tResult' = "none"
    /\ UNCHANGED otherThanFet

\* _validateUrl returns or throws; on return the timer is set and fetch is
\* called
ValidateUrlEnds ==
    /\ tPc = "validate"
    /\ IF isInternal(tHost)
       THEN /\ tPc' = "done" /\ tResult' = "Invalid url"
            /\ UNCHANGED <<tTimer, tRequests>>
       ELSE /\ tPc' = "headers" /\ tTimer' = "armed"
            /\ tRequests' = tRequests + 1
            /\ UNCHANGED tResult
    /\ UNCHANGED <<tHost, tElapsed, tCalls>>
    /\ UNCHANGED otherThanFet

\* a second passes while the timer has not run
FetchTick ==
    /\ tTimer = "armed"
    /\ tElapsed < TimeoutSeconds
    /\ tElapsed' = tElapsed + 1
    /\ UNCHANGED <<tPc, tHost, tTimer, tRequests, tCalls, tResult>>
    /\ UNCHANGED otherThanFet

\* the response headers arrive: `await fetch(...)` resolves
ResponseHeaders ==
    /\ tPc = "headers"
    /\ tPc' = "body"
    /\ UNCHANGED <<tHost, tTimer, tElapsed, tRequests, tCalls, tResult>>
    /\ UNCHANGED otherThanFet

\* fetch or arrayBuffer rejects with a TypeError (network error, redirect):
\* the catch throws an ApiError, nothing is tried again
ResponseFails ==
    /\ Fetching
    /\ tPc' = "done"
    /\ tResult' = "Error when fetching file."
    /\ UNCHANGED <<tHost, tTimer, tElapsed, tRequests, tCalls>>
    /\ UNCHANGED otherThanFet

\* `await response.arrayBuffer()` resolves: too large, or on to
\* createFromBuffer
ResponseBody(tooLarge) ==
    /\ tPc = "body"
    /\ IF tooLarge
       THEN tPc' = "done" /\ tResult' = "File is too large."
       ELSE tPc' = "createFromBuffer" /\ UNCHANGED tResult
    /\ UNCHANGED <<tHost, tTimer, tElapsed, tRequests, tCalls>>
    /\ UNCHANGED otherThanFet

\* the timer runs: controller.abort() rejects the pending fetch or body read
\* with an AbortError, which the catch throws on
TimerFires ==
    /\ tTimer = "armed"
    /\ tElapsed = TimeoutSeconds
    /\ tTimer' = "fired"
    /\ IF Fetching /\ SignalGiven
       THEN tPc' = "done" /\ tResult' = "AbortError"
       ELSE UNCHANGED <<tPc, tResult>>
    /\ UNCHANGED <<tHost, tElapsed, tRequests, tCalls>>
    /\ UNCHANGED otherThanFet

\* createFromBuffer(buffer) returns the asset or throws
CreateFromBufferEnds(result) ==
    /\ tPc = "createFromBuffer"
    /\ tPc' = "done"
    /\ tResult' = result
    /\ UNCHANGED <<tHost, tTimer, tElapsed, tRequests, tCalls>>
    /\ UNCHANGED otherThanFet

FetInit == FetStart /\ MigParked /\ SesParked /\ SlugParked /\ OwnParked /\ RelParked /\ UrlParked /\ RedParked /\ BufParked /\ LogParked /\ PerParked /\ GoneParked /\ NamParked /\ CasParked /\ SrtParked /\ AccParked /\ HndParked

FetNext ==
    \/ \E h \in FetchHosts : CreateFromUrlTimed(h)
    \/ ValidateUrlEnds
    \/ FetchTick
    \/ ResponseHeaders
    \/ ResponseFails
    \/ \E l \in BOOLEAN : ResponseBody(l)
    \/ TimerFires
    \/ \E r \in {"asset", "Invalid asset type."} : CreateFromBufferEnds(r)

\* the address lookup, the clock, the timer and the local work go on; the
\* remote server need not ever answer
SpecFetch ==
    /\ FetInit /\ [][FetNext]_vars
    /\ WF_vars(ValidateUrlEnds)
    /\ WF_vars(FetchTick)
    /\ WF_vars(TimerFires)
    /\ WF_vars(\E r \in {"asset", "Invalid asset type."} :
                  CreateFromBufferEnds(r))

\* C31: every createFromUrl call ends; a fetch still pending 5 seconds after
\* it began is aborted and the call ends with an error; a call issues at
\* most one request, and none once it has ended or been refused.
C31_EveryCallEnds ==
    /\ [](tRequests <= 1)
    /\ [](tResult = "Invalid url" => tRequests = 0)
    /\ [](tTimer = "fired" => ~Fetching)
    /\ [](tResult = "AbortError" => tElapsed = TimeoutSeconds)
    /\ (tPc # "idle") ~> (tPc = "done")

\* C31 witness: the server never answered; after 5 seconds the call ended
\* with the abort error, having issued one request
C31_Witness ==
    /\ tPc = "done" /\ tResult = "AbortError"
    /\ tElapsed = TimeoutSeconds /\ tRequests = 1 /\ tTimer = "fired"

-----------------------------------------------------------------------------
(* Rows that belong to a login: sessions, people, signatures                *)

MaxLoginSessions == 2

CPersonIds == {"p1", "p2"}

NoStatement ==
    [op |-> "none", login |-> "none", sessions |-> {}, people |-> {},
     signatures |-> {}]

\* FOREIGN KEY(...) REFERENCES parent ON DELETE CASCADE: the child rows that
\* go with the parent rows deleted
Cascaded(children, gone) == IF ForeignKeysOn THEN gone ELSE {}

\* an INSERT whose FOREIGN KEY names a parent row that is not stored
ParentMissing(parent, stored) == ForeignKeysOn /\ parent \notin stored

CasStart ==
    /\ cLogins = Logins
    /\ cSessions = {}
    /\ cPeople \in SUBSET [id : CPersonIds, owner : Logins]
    /\ \A p, q \in cPeople : p.id = q.id => p = q
    /\ cSignatures \in SUBSET {p.id : p \in cPeople}
    /\ cNextSession = 0
    /\ cLast = NoStatement

\* DELETE FROM logins WHERE userId = :userId
DeleteLogin(userId) ==
    /\ userId \in cLogins
    /\ LET sessionsGone ==
               Cascaded(cSessions, {s \in cSessions : s.userId = userId})
           peopleGone ==
               Cascaded(cPeople, {p \in cPeople : p.owner = userId})
           signaturesGone ==
               Cascaded(cSignatures,
                        cSignatures \cap {p.id : p \in peopleGone})
       IN /\ cLogins' = cLogins \ {userId}
          /\ cSessions' = cSessions \ sessionsGone
          /\ cPeople' = cPeople \ peopleGone
          /\ cSignatures' = cSignatures \ signaturesGone
          /\ cLast' = [op |-> "delete", login |-> userId,
                       sessions |-> sessionsGone, people |-> peopleGone,
                       signatures |-> signaturesGone]
    /\ UNCHANGED cNextSession
    /\ UNCHANGED otherThanCas

\* Session.create(user) on a Login object, whose row may be gone
SessionCreateFor(userId) ==
    /\ cNextSession < MaxLoginSessions
    /\ cNextSession' = cNextSession + 1
    /\ cSessions' =
         IF ParentMissing(userId, cLogins) THEN cSessions
         ELSE cSessions \cup {[sessionId |-> cNextSession + 1,
                               userId |-> userId]}
    /\ cLast' = [NoStatement EXCEPT !.op = "create", !.login = userId]
    /\ UNCHANGED <<cLogins, cPeople, cSignatures>>
    /\ UNCHANGED otherThanCas

\* initiative.addSignature(person) on a Person object, whose row may be gone
SignFor(personId) ==
    /\ cSignatures' =
         IF ParentMissing(personId, {p.id : p \in cPeople}) THEN cSignatures
         ELSE cSignatures \cup {personId}
    /\ cLast' = [NoStatement EXCEPT !.op = "sign"]
    /\ UNCHANGED <<cLogins, cSessions, cPeople, cNextSession>>
    /\ UNCHANGED otherThanCas

\* initiative.removeSignature(person)
UnsignFor(personId) ==
    /\ cSignatures' = cSignatures \ {personId}
    /\ cLast' = [NoStatement EXCEPT !.op = "unsign"]
    /\ UNCHANGED <<cLogins, cSessions, cPeople, cNextSession>>
    /\ UNCHANGED otherThanCas

CasInit == CasStart /\ MigParked /\ SesParked /\ SlugParked /\ OwnParked /\ RelParked /\ UrlParked /\ RedParked /\ BufParked /\ LogParked /\ PerParked /\ GoneParked /\ NamParked /\ FetParked /\ SrtParked /\ AccParked /\ HndParked

CasNext ==
    \/ \E l \in Logins : DeleteLogin(l)
    \/ \E l \in Logins : SessionCreateFor(l)
    \/ \E p \in CPersonIds : SignFor(p)
    \/ \E p \in CPersonIds : UnsignFor(p)

SpecCascade == CasInit /\ [][CasNext]_vars

\* C32: every session row and every person row names a login that is
\* stored, and every signature row a person that is stored: deleting a login
\* takes its sessions, its people and their signatures with it.
C32_NoRowOfMissingLogin ==
    /\ \A s \in cSessions : s.userId \in cLogins
    /\ \A p \in cPeople : p.owner \in cLogins
    /\ \A personId \in cSignatures : \E p \in cPeople : p.id = personId

\* C32 witness: the login deleted last had a session, a person and a
\* signature of that person, and the other login's rows are still stored
C32_Witness ==
    /\ cLast.op = "delete"
    /\ cLast.sessions # {} /\ cLast.people # {} /\ cLast.signatures # {}
    /\ cSessions # {} /\ cPeople # {} /\ cSignatures # {}

-----------------------------------------------------------------------------
(* makeSorter over the keys a and b, all reversed or none                   *)

MaxSortLen == 2

\* values of a key: strings, two of them equal at sensitivity 'base', and
\* null / undefined
KeyValues == {"a", "A", "b", Nullish}

SortRecords == [a : KeyValues, b : KeyValues]
SortArrays == UNION {[1..n -> SortRecords] : n \in 0..MaxSortLen}

\* the comparator of makeSorter([{key: 'a', reverse}, {key: 'b', reverse}])
CompareAB(reverse, x, y) ==
    IF CompareKey(x.a, y.a, reverse) # 0
    THEN CompareKey(x.a, y.a, reverse)
    ELSE CompareKey(x.b, y.b, reverse)

\* array.toSorted(comparator): stable
RECURSIVE InsertAB(_, _, _)
InsertAB(reverse, x, s) ==
    IF s = <<>> THEN <<x>>
    ELSE IF CompareAB(reverse, x, Head(s)) < 0 THEN <<x>> \o s
    ELSE <<Head(s)>> \o InsertAB(reverse, x, Tail(s))

RECURSIVE sorterAB(_, _)
sorterAB(reverse, array) ==
    IF array = <<>> THEN <<>>
    ELSE InsertAB(reverse, array[Len(array)],
                  sorterAB(reverse, SubSeq(array, 1, Len(array) - 1)))

\* array.toReversed()
toReversed(array) == [k \in 1..Len(array) |-> array[Len(array) + 1 - k]]

SrtStart ==
    /\ srArray \in SortArrays
    /\ srPc = "input"
    /\ srSorted = <<>>
    /\ srSortedReverse = <<>>

\* sorter([...testCase]) and sorterReverse([...testCase])
SortBoth ==
    /\ srPc = "input"
    /\ srPc' = "sorted"
    /\ srSorted' = sorterAB(FALSE, srArray)
    /\ srSortedReverse' = sorterAB(TRUE, srArray)
    /\ UNCHANGED srArray
    /\ UNCHANGED otherThanSrt

SrtInit == SrtStart /\ MigParked /\ SesParked /\ SlugParked /\ OwnParked /\ RelParked /\ UrlParked /\ RedParked /\ BufParked /\ LogParked /\ PerParked /\ GoneParked /\ NamParked /\ FetParked /\ CasParked /\ AccParked /\ HndParked

SrtNext == SortBoth

SpecSort == SrtInit /\ [][SrtNext]_vars

\* C33: for every input array, what the sorter with every key reversed
\* returns is exactly the reverse of what the sorter with the same keys not
\* reversed returns, null and undefined key values included.
C33_ReverseIsReversed ==
    srPc = "sorted" => srSortedReverse = toReversed(srSorted)

\* C33 witness: for [{a: null, b: 'b'}, {a: 'b', b: 'b'}] both sorters put
\* the record with the null key last
C33_NullLastBothWays ==
    /\ srPc = "sorted"
    /\ srArray = <<[a |-> Nullish, b |-> "b"], [a |-> "b", b |-> "b"]>>
    /\ srSorted = <<[a |-> "b", b |-> "b"], [a |-> Nullish, b |-> "b"]>>
    /\ srSortedReverse = srSorted

-----------------------------------------------------------------------------
(* POST /account: the password branch                                       *)

MaxAccountSessions == 3

AccountPasswords == {"Password01", "Password02", "short"}

\* validatePassword(newPassword, newPasswordRepeat): true or the message
validatePassword(newPassword, newPasswordRepeat) ==
    IF newPassword # newPasswordRepeat THEN "Passwords did not match."
    ELSE IF newPassword = "short" THEN "Password did not match criteria."
    ELSE "true"

AccStart ==
    /\ acHash = bcryptHash("Password01")
    /\ acSessions = {}
    /\ acNextSession = 0
    /\ acIssuedBefore = {}
    /\ acLast = [op |-> "none", cookie |-> 0, verified |-> FALSE,
                 before |-> bcryptHash("Password01"), status |-> 0]

\* a successful login on some browser: Session.create(login)
AccountLogin ==
    /\ acNextSession < MaxAccountSessions
    /\ acNextSession' = acNextSession + 1
    /\ acSessions' = acSessions \cup {acNextSession + 1}
    /\ acLast' = [acLast EXCEPT !.op = "login"]
    /\ UNCHANGED <<acHash, acIssuedBefore>>
    /\ UNCHANGED otherThanAcc

\* logout(request, response, '/account'): the session of the cookie is
\* invalidated
LogoutCookie(cookie) == acSessions \ {cookie}

\* the logout route: logout(request, response, '/') with cookie session
AccountLogout(cookie) ==
    /\ acSessions' = LogoutCookie(cookie)
    /\ acLast' = [acLast EXCEPT !.op = "logout", !.cookie = cookie]
    /\ UNCHANGED <<acHash, acNextSession, acIssuedBefore>>
    /\ UNCHANGED otherThanAcc

\* app.post('/account') with currentPassword, newPassword and
\* newPasswordRepeat, for a request requireLogin let through
PostAccountPassword(cookie, currentPassword, newPassword, newPasswordRepeat) ==
    /\ cookie \in acSessions
    /\ IF validatePassword(newPassword, newPasswordRepeat) # "true"
       THEN /\ acLast' = [op |-> "password", cookie |-> cookie,
                          verified |-> bcryptCompare(currentPassword, acHash),
                          before |-> acHash, status |-> 400]
            /\ UNCHANGED <<acHash, acSessions, acIssuedBefore>>
       ELSE /\ acLast' = [op |-> "password", cookie |-> cookie,
                          verified |-> bcryptCompare(currentPassword, acHash),
                          before |-> acHash,
                          status |-> IF bcryptCompare(currentPassword, acHash)
                                     THEN 302 ELSE 400]
            /\ acHash' = bcryptHash(newPassword)
            /\ acIssuedBefore' = acSessions
            /\ acSessions' = LogoutCookie(cookie)
    /\ UNCHANGED acNextSession
    /\ UNCHANGED otherThanAcc

AccInit == AccStart /\ MigParked /\ SesParked /\ SlugParked /\ OwnParked /\ RelParked /\ UrlParked /\ RedParked /\ BufParked /\ LogParked /\ PerParked /\ GoneParked /\ NamParked /\ FetParked /\ CasParked /\ SrtParked /\ HndParked

AccNext ==
    \/ AccountLogin
    \/ \E cookie \in 1..MaxAccountSessions : AccountLogout(cookie)
    \/ \E cookie \in 1..MaxAccountSessions,
          current, new, repeat \in AccountPasswords :
          PostAccountPassword(cookie, current, new, repeat)

SpecAccount == AccInit /\ [][AccNext]_vars

\* C34: POST /account changes the stored hash only if the current password
\* submitted verifies against it; when it does not verify, the hash is what
\* it was and the session of the request is still stored.
C34_ChangeOnlyIfVerified ==
    (acLast.op = "password" /\ ~acLast.verified) =>
        /\ acHash = acLast.before
        /\ acLast.cookie \in acSessions

\* C34 witness: a wrong current password was submitted, the answer was 400,
\* and yet the new password is stored and the session is gone
C34_WrongPasswordChanged ==
    /\ acLast.op = "password" /\ ~acLast.verified /\ acLast.status = 400
    /\ acLast.before = bcryptHash("Password01")
    /\ acHash = bcryptHash("Password02")
    /\ acLast.cookie \notin acSessions

\* C35: no session that was stored for the login when its password was
\* changed is still accepted by fromSessionId.
C35_OldSessionsRefused ==
    \A id \in acIssuedBefore : id \notin acSessions

\* C35 witness: the password was changed with the right current password
\* from session 1; session 2, issued before, is still stored
C35_OtherSessionAccepted ==
    /\ acLast.op = "password" /\ acLast.verified /\ acLast.cookie = 1
    /\ acHash # acLast.before
    /\ acIssuedBefore = {1, 2}
    /\ acSessions = {2}


-----------------------------------------------------------------------------
(* Migration runner: a migration throws, or the process stops *)

\* migrate has no try/catch around shouldRun and run: the rejection leaves
\* the for loop and rejects migrate, and with it createApi
Propagates_Caught == FALSE
Propagates == TRUE

Failures == {"shouldRunThrew", "runThrew", "stopped"}

\* the migration the loop is at has not had its marker written
AtUnwritten ==
    \/ mpc \in {"run", "write"}
    \/ /\ mpc = "loop"
       /\ mIndex <= Len(allMigrationsSorted)
       /\ ~AlreadyApplied(allMigrationsSorted[mIndex], migrationState)

\* await migration.shouldRun(api) rejects
MigrateShouldRunThrows ==
    /\ mpc = "loop"
    /\ mIndex <= Len(allMigrationsSorted)
    /\ ~AlreadyApplied(allMigrationsSorted[mIndex], migrationState)
    /\ mlog' = Append(mlog, [op |-> "shouldRunThrew",
                             id |-> allMigrationsSorted[mIndex],
                             call |-> mCalls, result |-> FALSE])
    /\ mShouldRun' = FALSE
    /\ mpc' = IF Propagates THEN "failed" ELSE "write"
    /\ UNCHANGED <<migrationsDir, stateFile, migrationState, mIndex, mCalls,
                   mRead>>
    /\ UNCHANGED otherThanMig

\* await migration.run(api) rejects (readFile or database.exec throws)
MigrateRunThrows ==
    /\ mpc = "run"
    /\ mlog' = Append(mlog, [op |-> "runThrew",
                             id |-> allMigrationsSorted[mIndex],
                             call |-> mCalls, result |-> FALSE])
    /\ mpc' = IF Propagates THEN "failed" ELSE "write"
    /\ UNCHANGED <<migrationsDir, stateFile, migrationState, mIndex,
                   mShouldRun, mCalls, mRead>>
    /\ UNCHANGED otherThanMig

\* the process stops while a migration's marker is still to be written:
\* before shouldRun, between shouldRun and run, or before writeMigrationState
MigrateStop ==
    /\ AtUnwritten
    /\ mlog' = Append(mlog, [op |-> "stopped",
                             id |-> allMigrationsSorted[mIndex],
                             call |-> mCalls, result |-> FALSE])
    /\ mpc' = "failed"
    /\ UNCHANGED <<migrationsDir, stateFile, migrationState, mIndex,
                   mShouldRun, mCalls, mRead>>
    /\ UNCHANGED otherThanMig

\* the process is started again after a failed startup
RestartFailed ==
    /\ mpc = "failed"
    /\ mCalls < MaxCalls
    /\ mpc' = "idle"
    /\ UNCHANGED <<migrationsDir, stateFile, migrationState, mIndex,
                   mShouldRun, mlog, mCalls, mRead>>
    /\ UNCHANGED otherThanMig

MigFailNext ==
    \/ MigrateStart
    \/ MigrateSkip
    \/ MigrateShouldRun
    \/ MigrateRun
    \/ MigrateWrite
    \/ MigrateReturn
    \/ Restart
    \/ MigrateShouldRunThrows
    \/ MigrateRunThrows
    \/ MigrateStop
    \/ RestartFailed

SpecMigrateFail == MigInit /\ [][MigFailNext]_vars

\* the failure of call c is the last event of call c
FailureEndsCall(log) ==
    \A j, k \in 1..Len(log) :
        (log[j].op \in Failures /\ log[j].call = log[k].call) => k <= j

\* a call after a failed one begins at the migration that failed
NextCallBeginsAt(log) ==
    \A j \in 1..Len(log) :
        (log[j].op \in Failures /\ SelectCall(log, log[j].call + 1) # <<>>)
            => LET first == Head(SelectCall(log, log[j].call + 1))
               IN /\ first.id = log[j].id
                  /\ first.op \in {"shouldRun", "shouldRunThrew", "stopped"}

\* C36: when shouldRun or run of a migration throws, or the process stops
\* before that migration's marker is written, the persisted marker stays below
\* the migration's id, nothing more happens in that startup, and the next
\* startup that gets as far as a migration begins with that same migration.
C36_FailureKeepsMarker ==
    /\ mpc = "failed" =>
          /\ Last(mlog).op \in Failures
          /\ readMigrationState(stateFile) < Last(mlog).id
          /\ \A k \in 1..Len(mlog) :
                (mlog[k].op = "write" /\ mlog[k].call = mCalls)
                    => mlog[k].id < Last(mlog).id
    /\ FailureEndsCall(mlog)
    /\ NextCallBeginsAt(mlog)
    /\ (mpc \in {"done", "failed"} /\ mCalls = 2
        /\ \E j \in 1..Len(mlog) : mlog[j].op \in Failures /\ mlog[j].call = 1)
          => SelectCall(mlog, 2) # <<>>

\* C36 witness: run of migration 2 threw in the first startup with 3 pending;
\* the second startup ran 2 again and then 3
C36_Witness ==
    /\ mpc = "done" /\ mCalls = 2
    /\ allMigrationsSorted = <<1, 2, 3>>
    /\ mRead = <<1, 1>>
    /\ Len(mlog) = 8
    /\ mlog[1].op = "shouldRun" /\ mlog[1].id = 2
    /\ mlog[2].op = "runThrew" /\ mlog[2].id = 2 /\ mlog[2].call = 1
    /\ mlog[3].op = "shouldRun" /\ mlog[3].id = 2 /\ mlog[3].call = 2
    /\ mlog[4].op = "run" /\ mlog[4].id = 2
    /\ mlog[5].op = "write" /\ mlog[5].id = 2
    /\ mlog[8].op = "write" /\ mlog[8].id = 3
    /\ readMigrationState(stateFile) = 3


-----------------------------------------------------------------------------
(* Login.create: calls that overlap at `await bcrypt.hash` *)

\* only Login.create runs: every row of logins is the insert of one call
CreateRaceNext ==
    \/ LoginTick
    \/ \E u \in Usernames, p \in Passwords : LoginCreate(u, p)
    \/ \E p \in lPending : LoginCreateInsert(p)

SpecCreateRace == LogInit /\ [][CreateRaceNext]_vars

\* the rows whose username equals u ignoring case
RowsNamed(u) == {i \in 1..Len(logins) : upper(logins[i].username) = upper(u)}

\* C37: of Login.create calls for usernames that are equal ignoring case, also
\* when they overlap (each passed the lookup before any inserted), at most one
\* creates a row; the insert of another one fails and stores nothing.
C37_OverlappingCreateOneRow ==
    /\ \A u \in Usernames : Cardinality(RowsNamed(u)) <= 1
    /\ (lLast.op = "create" /\ lLast.result \notin {"awaiting", "login"})
          => ~lLast.wrote

\* C37 witness: create("alice") and create("ALICE") overlapped and both
\* inserted
C37_BothInserted ==
    /\ Len(logins) = 2
    /\ logins[1].username = "alice" /\ logins[2].username = "ALICE"
    /\ lPending = {}
    /\ lLast.op = "create" /\ lLast.result = "login" /\ lLast.id = 2

-----------------------------------------------------------------------------
(* One Initiative row and two objects loaded from it (Initiative.fromId      *)
(* twice): updatePdf, updateImage and rm through either, overlapping at the  *)
(* awaited asset.rm(). Organisation.updateImage and rm are the same code     *)
(* without the pdf.                                                          *)

MaxHandleFiles == 4

Handles == {1, 2}

\* the row as created: pdf 1, and image 2 or none
HndStart ==
    /\ hNames = 2
    /\ \E i \in {NoAsset, 2} :
          /\ hFiles = {1, i} \ {NoAsset}
          /\ hRow = [exists |-> TRUE, pdf |-> 1, image |-> i]
          /\ hObj = [h \in Handles |-> [pdf |-> 1, image |-> i]]
    /\ hPending = [h \in Handles |-> Idle]

\* Asset.createFromBuffer: a file under a new name
HandleAssetCreate ==
    /\ hNames < MaxHandleFiles
    /\ hNames' = hNames + 1
    /\ hFiles' = hFiles \cup {hNames + 1}
    /\ UNCHANGED <<hRow, hObj, hPending>>
    /\ UNCHANGED otherThanHnd

\* the assets a call on handle h is handed: a file that exists, that no
\* column of the row names and that h itself does not hold
HandleArgs(h) ==
    {f \in hFiles : /\ ~(hRow.exists /\ f \in {hRow.pdf, hRow.image})
                    /\ f \notin {hObj[h].pdf, hObj[h].image}}

\* UPDATE initiatives SET column = value WHERE id = :id
UpdateRow(column, value) ==
    IF ~hRow.exists THEN hRow
    ELSE IF column = "pdf" THEN [hRow EXCEPT !.pdf = value]
    ELSE [hRow EXCEPT !.image = value]

\* the call has written the row and awaits the removal of toRemove; with
\* nothing to await it assigns its fields at once
HandleSuspend(h, toRemove, pdf, image) ==
    IF toRemove = <<>>
    THEN /\ hPending' = [hPending EXCEPT ![h] = Idle]
         /\ hObj' = [hObj EXCEPT ![h] = [pdf |-> pdf, image |-> image]]
    ELSE /\ hPending' = [hPending EXCEPT ![h] =
                [active |-> TRUE, toRemove |-> toRemove, pdf |-> pdf,
                 image |-> image]]
         /\ hObj' = hObj

\* initiative.updatePdf(newPdf) on handle h up to `await this.pdf.rm()`
HandleUpdatePdf(h, newPdf) ==
    /\ ~hPending[h].active
    /\ newPdf \in HandleArgs(h)
    /\ hRow' = UpdateRow("pdf", newPdf)
    /\ HandleSuspend(h, <<hObj[h].pdf>>, newPdf, hObj[h].image)
    /\ UNCHANGED <<hFiles, hNames>>
    /\ UNCHANGED otherThanHnd

\* initiative.updateImage(newImage) on handle h up to
\* `await this.image?.rm()`
HandleUpdateImage(h, newImage) ==
    /\ ~hPending[h].active
    /\ newImage \in HandleArgs(h) \cup {NoAsset}
    /\ IF SameImageIsNoop(hObj[h].image, newImage)
       THEN UNCHANGED <<hRow, hObj, hPending>>
       ELSE /\ hRow' = UpdateRow("image", newImage)
            /\ HandleSuspend(h,
                             IF hObj[h].image = NoAsset THEN <<>>
                             ELSE <<hObj[h].image>>,
                             hObj[h].pdf, newImage)
    /\ UNCHANGED <<hFiles, hNames>>
    /\ UNCHANGED otherThanHnd

\* initiative.rm() on handle h up to the first await: the DELETE
HandleRm(h) ==
    /\ ~hPending[h].active
    /\ hRow' = [hRow EXCEPT !.exists = FALSE]
    /\ HandleSuspend(h,
                     (IF hObj[h].image = NoAsset THEN <<>>
                      ELSE <<hObj[h].image>>) \o <<hObj[h].pdf>>,
                     hObj[h].pdf, hObj[h].image)
    /\ UNCHANGED <<hFiles, hNames>>
    /\ UNCHANGED otherThanHnd

\* the rm() that handle h awaits runs: the file is removed, or it is
\* already gone and the rejection is caught; then the next rm(), or the
\* assignment of the fields
HandleAwaitRm(h) ==
    /\ hPending[h].active
    /\ hFiles' = hFiles \ {Head(hPending[h].toRemove)}
    /\ HandleSuspend(h, Tail(hPending[h].toRemove), hPending[h].pdf,
                     hPending[h].image)
    /\ UNCHANGED <<hNames, hRow>>
    /\ UNCHANGED otherThanHnd

HndInit == HndStart /\ MigParked /\ SesParked /\ SlugParked /\ OwnParked /\ RelParked /\ UrlParked /\ RedParked /\ BufParked /\ LogParked /\ PerParked /\ GoneParked /\ NamParked /\ FetParked /\ CasParked /\ SrtParked /\ AccParked

HndNext ==
    \/ HandleAssetCreate
    \/ \E h \in Handles, p \in 1..MaxHandleFiles : HandleUpdatePdf(h, p)
    \/ \E h \in Handles, i \in 0..MaxHandleFiles : HandleUpdateImage(h, i)
    \/ \E h \in Handles : HandleRm(h)
    \/ \E h \in Handles : HandleAwaitRm(h)

SpecHandles == HndInit /\ [][HndNext]_vars

Quiescent == \A h \in Handles : ~hPending[h].active

\* C38: whatever the interleaving of updatePdf, updateImage and rm through
\* the two handles, once every call has completed the row, if it still
\* exists, names only files that exist in the asset directory.
C38_QuiescentRowHasFiles ==
    (Quiescent /\ hRow.exists) =>
        /\ hRow.pdf \in hFiles
        /\ hRow.image # NoAsset => hRow.image \in hFiles

\* C38 witness: handle 1 came to hold asset 3 as its image, handle 2 replaced
\* the image and then stored the unreferenced asset 3 as the pdf, and handle
\* 1's next updateImage removed file 3: every call has completed, the row
\* names pdf 3 and the file is gone
C38_StaleHandleRemoved ==
    /\ Quiescent /\ hRow.exists
    /\ hRow.pdf = 3 /\ 3 \notin hFiles
    /\ hObj[2].pdf = 3
    /\ hObj[1].pdf = 1 /\ hObj[1].image # 3


-----------------------------------------------------------------------------
(* Owned assets: what a call on one aggregate does to the others *)

\* row r names a file that directory dir does not hold: Initiative.fromId,
\* fromSlug and all() throw for a missing pdf and drop a missing image
DanglingIn(r, dir) ==
    \/ r.pdf # NoAsset /\ r.pdf \notin dir
    \/ r.image # NoAsset /\ r.image \notin dir

\* C39: no step of updatePdf, updateImage or rm on one aggregate touches
\* another: every other row stays in its table as it was, and the files it
\* names, present before the step, are present after it.
C39_OthersUntouched ==
    [][ ownLast'.op # "none" =>
          \A r \in ownRows :
              r.id # ownLast'.id =>
                  /\ r \in ownRows'
                  /\ ~DanglingIn(r, assetDirectory)
                        => ~DanglingIn(r, assetDirectory') ]_vars

\* C39 witness: initiative 1 was deleted and its rm() has returned; the row
\* of initiative 2 is there, and the pdf it names went with initiative 1
C39_OtherLostPdf ==
    /\ ~ownPending.active
    /\ ownLast.op = "rm" /\ ownLast.id = 1 /\ ownLast.done
    /\ ~\E r \in ownRows : r.id = 1
    /\ \E r \in ownRows :
          /\ r.id = 2 /\ r.kind = "initiative"
          /\ r.pdf \in ownLast.old
          /\ r.pdf \notin assetDirectory


-----------------------------------------------------------------------------
(* removeUnusedAssets: the sweep of the asset directory at process start *)

\* Initiative.all(): _fromRow rejects for a row whose pdf has no file
InitiativeAllThrows ==
    \E r \in ownRows : r.kind = "initiative" /\ fromName(r.pdf) = NoAsset

\* the names the two loops take out of diskAssets: pdf.name and image.name of
\* every loaded initiative, image.name of every loaded organisation
LoadedNames ==
    ({r.pdf : r \in {x \in ownRows : x.kind = "initiative"}}
     \cup {fromName(r.image) : r \in ownRows}) \ {NoAsset}

\* the process starts (no object of an earlier process is left, no call is
\* in flight) and removeUnusedAssets(assetDirectory, api) runs before any
\* request is served: readdir, Initiative.all(), Organisation.all(), unlink
\* of what is left of the listing
RemoveUnusedAssets ==
    /\ ownPending' = Idle
    /\ ownObjs' = [k \in DOMAIN ownObjs |-> [ownObjs[k] EXCEPT !.held = FALSE]]
    /\ LET diskAssets == assetDirectory
       IN IF InitiativeAllThrows
          THEN /\ assetDirectory' = assetDirectory
               /\ ownLast' = [op |-> "removeUnusedAssets", id |-> 0,
                              old |-> diskAssets, pdf |-> NoAsset,
                              image |-> NoAsset, failed |-> {},
                              threw |-> TRUE, done |-> TRUE]
          ELSE /\ assetDirectory' = assetDirectory \ (diskAssets \ LoadedNames)
               /\ ownLast' = [op |-> "removeUnusedAssets", id |-> 0,
                              old |-> diskAssets, pdf |-> NoAsset,
                              image |-> NoAsset, failed |-> {},
                              threw |-> FALSE, done |-> TRUE]
    /\ UNCHANGED <<assetNames, ownRows, ownNextId>>
    /\ UNCHANGED otherThanOwn

SweepNext ==
    \/ AssetCreateFromBuffer
    \/ \E p \in AssetArgs, i \in AssetArgs \cup {NoAsset} :
          InitiativeCreateOwning(p, i)
    \/ \E i \in AssetArgs \cup {NoAsset} : OrganisationCreateOwning(i)
    \/ \E id \in 1..MaxOwners, p \in AssetArgs : InitiativeUpdatePdf(id, p)
    \/ \E id \in 1..MaxOwners, i \in AssetArgs \cup {NoAsset} : UpdateImage(id, i)
    \/ \E id \in 1..MaxOwners : Rm(id)
    \/ AwaitRm
    \/ AwaitRmRejects
    \/ Crash
    \/ \E id \in 1..MaxOwners : FromId(id)
    \/ RemoveUnusedAssets

SpecSweep == OwnInit /\ [][SweepNext]_vars

\* the names some row stores as its pdf or image
ReferencedNames == (UNION {{r.pdf, r.image} : r \in ownRows}) \ {NoAsset}

\* C40: when removeUnusedAssets has run, the asset directory holds exactly the
\* files of its listing that some Initiative pdf or image or Organisation
\* image names: every unreferenced file is deleted and no referenced one is.
C40_SweepExact ==
    ownLast.op = "removeUnusedAssets" =>
        assetDirectory = ownLast.old \cap ReferencedNames

\* C40 witness: the sweep ran with a file that no row names in the directory
\* and left it there, because Initiative.all() rejected for a row whose pdf
\* has no file
C40_UnusedFileKept ==
    /\ ownLast.op = "removeUnusedAssets" /\ ownLast.threw
    /\ \E f \in assetDirectory : f \notin ReferencedNames
    /\ assetDirectory = ownLast.old

====
